---- MODULE Spec2Model ----
(***************************************************************************)
(* A model of the JsonRPC engine of src/src/js/json-rpc.js: the id         *)
(* counter, the pending-completion map, the dispatch table, the transport  *)
(* binding, the promises handed to callers, and one action per public      *)
(* method of the class.                                                    *)
(***************************************************************************)
EXTENDS Integers, Sequences, FiniteSets

\* Bounds of the model.
MaxId == 2
MaxBatch == 3

-----------------------------------------------------------------------------
(* JavaScript values.  Every value is a tuple whose first element is its   *)
(* type tag; an object is an ordered sequence of <<key, value>> pairs.     *)

Undefined == <<"undefined">>
JNull == <<"null">>
Str(s) == <<"str", s>>
Num(n) == <<"num", n>>
Bool(b) == <<"bool", b>>
Arr(items) == <<"arr", items>>
Obj(pairs) == <<"obj", pairs>>
ErrorObject(message) == Obj(<< <<"message", Str(message)>> >>)

\* v == null
IsNullish(v) == v \in {JNull, Undefined}
\* v instanceof Array
IsArray(v) == v[1] = "arr"
\* v instanceof Object
IsObject(v) == v[1] \in {"arr", "obj"}

Keys(o) == IF o[1] = "obj" THEN {o[2][i][1] : i \in 1..Len(o[2])} ELSE {}
\* k in o
Has(o, k) == k \in Keys(o)
\* o[k] (o.k)
Get(o, k) ==
    IF Has(o, k)
    THEN o[2][CHOOSE i \in 1..Len(o[2]) : o[2][i][1] = k][2]
    ELSE Undefined
\* o[k] = v
Put(o, k, v) ==
    IF Has(o, k)
    THEN Obj([i \in 1..Len(o[2]) |->
                IF o[2][i][1] = k THEN <<k, v>> ELSE o[2][i]])
    ELSE Obj(Append(o[2], <<k, v>>))

Digit == <<"0", "1", "2", "3", "4", "5", "6", "7", "8", "9">>

\* Number.prototype.toString of a non-negative integer
RECURSIVE NumberToString(_)
NumberToString(n) ==
    IF n < 10
    THEN Digit[n + 1]
    ELSE NumberToString(n \div 10) \o Digit[(n % 10) + 1]

\* The property key an object is indexed with: obj[v]
PropertyKey(v) ==
    CASE v[1] = "str" -> v[2]
      [] v[1] = "num" -> NumberToString(v[2])
      [] v[1] = "bool" -> IF v[2] THEN "true" ELSE "false"
      [] v = JNull -> "null"
      [] OTHER -> "undefined"

\* f with key k bound to v (added or replaced)
Extend(f, k, v) == [x \in (DOMAIN f) \cup {k} |-> IF x = k THEN v ELSE f[x]]
\* delete f[k]
Delete(f, k) == [x \in (DOMAIN f) \ {k} |-> f[x]]

-----------------------------------------------------------------------------
(* The codec.  A text on the wire is <<"json", tree>> for a well-formed    *)
(* payload with that JSON tree, or Garbage.  JSON.stringify drops the      *)
(* properties whose value is undefined and writes undefined array items as *)
(* null.                                                                   *)

Garbage == <<"garbage">>

\* A serialisation that writes a property whose value is undefined as null
RECURSIVE JsonTreeNullsUndefined(_)
JsonTreeNullsUndefined(v) ==
    CASE v[1] = "obj" ->
           Obj([i \in 1..Len(v[2]) |->
                  <<v[2][i][1],
                    IF v[2][i][2] = Undefined THEN JNull
                    ELSE JsonTreeNullsUndefined(v[2][i][2])>>])
      [] v[1] = "arr" ->
           Arr([i \in 1..Len(v[2]) |->
                  IF v[2][i] = Undefined THEN JNull
                  ELSE JsonTreeNullsUndefined(v[2][i])])
      [] OTHER -> v

\* The value JSON.parse reads back from JSON.stringify(v): properties whose
\* value is undefined are left out, undefined array items are written null
RECURSIVE JsonTree(_)
JsonTree(v) ==
    CASE v[1] = "obj" ->
           LET kept == SelectSeq(v[2], LAMBDA p : p[2] # Undefined)
           IN Obj([i \in 1..Len(kept) |-> <<kept[i][1], JsonTree(kept[i][2])>>])
      [] v[1] = "arr" ->
           Arr([i \in 1..Len(v[2]) |->
                  IF v[2][i] = Undefined THEN JNull ELSE JsonTree(v[2][i])])
      [] OTHER -> v

JSON_stringify(v) == <<"json", JsonTree(v)>>
JSON_parse_throws(text) == text[1] # "json"
JSON_parse(text) == text[2]

-----------------------------------------------------------------------------
(* The state of one JsonRPC instance and of what surrounds it.             *)

VARIABLES
    id_counter,         \* this.id_counter
    methods,            \* this.methods: method name -> registered callable
    pending_callbacks,  \* this.pending_callbacks: uid -> completion closure
    transport,          \* this.transport: NoTransport or a transport
    onmessage,          \* the transports whose onmessage is process_received
    promises,           \* uid -> the promise created for the call of that uid
    aggregates,         \* the Promise.all promises of the batches sent
    invoked,            \* uid -> how often the closure of that uid was called
    issued,             \* the uids _create_uid has returned, in order
    last,               \* the operation that just ran: input, state before,
                        \* effects; Idle once control is back in the event loop
    socket,             \* the KlippyWebsocket of main.js: connected,
                        \* reconnect, its primary socket ws, a pending
                        \* reconnect timer, a one-shot-token fetch in flight
    other               \* the fields of a second JsonRPC instance

vars == <<id_counter, methods, pending_callbacks, transport, onmessage,
          promises, aggregates, invoked, issued, last, socket, other>>

NoTransport == "null"
\* new Object(): no property of its own
EmptyMap == [k \in {} |-> Undefined]
\* The functions a new Object() inherits from Object.prototype, by key (two
\* of them): map[key] yields them for a key the map has no property for.
ObjectPrototype ==
    [k \in {"toString", "valueOf"} |->
       IF k = "toString" THEN "Object.prototype.toString"
       ELSE "Object.prototype.valueOf"]
\* map[key] != null
Bound(map, key) == key \in DOMAIN map \/ key \in DOMAIN ObjectPrototype
\* map[key], where it is not null
Lookup(map, key) == IF key \in DOMAIN map THEN map[key] ELSE ObjectPrototype[key]
Transports == {"T1"}

Pending == [state |-> "pending", value |-> Undefined]
Fulfilled(v) == [state |-> "fulfilled", value |-> v]
Rejected(v) == [state |-> "rejected", value |-> v]

\* Promise.reject(Error("No Transport Initialized"))
NoTransportRejection == Rejected(ErrorObject("No Transport Initialized"))

\* The engine state an operation started from.
Snapshot ==
    [id_counter |-> id_counter, methods |-> methods,
     pending_callbacks |-> pending_callbacks, transport |-> transport,
     onmessage |-> onmessage, promises |-> promises,
     aggregates |-> aggregates, invoked |-> invoked, issued |-> issued]

\* What an operation did: frames handed to transport.send, console.log
\* lines, the value returned, the exception that left it ("none" if none)
\* and the functions it called through the dispatch table or the pending map;
\* from is the transport whose onmessage started it ("caller" when the page
\* called the engine itself).
Effect(op, input, out, log, ret, threw) ==
    [op |-> op, input |-> input, pre |-> Snapshot, out |-> out, log |-> log,
     ret |-> ret, threw |-> threw, calls |-> <<>>, other |-> other,
     from |-> "caller"]

\* new JsonRPC(): the fields of an instance after its constructor
NewEngine ==
    [id_counter |-> 0, methods |-> EmptyMap,
     pending_callbacks |-> EmptyMap, transport |-> NoTransport,
     onmessage |-> {}, promises |-> EmptyMap, aggregates |-> <<>>,
     invoked |-> EmptyMap, issued |-> <<>>]

\* No operation is running: the engine is between two tasks.
Idle ==
    [op |-> "idle", input |-> Undefined, pre |-> NewEngine,
     out |-> <<>>, log |-> <<>>, ret |-> <<"none">>, threw |-> "none",
     calls |-> <<>>, other |-> NewEngine, from |-> "caller"]

\* this.transport.send(data)
Send(via, data) == [via |-> via, data |-> data]

\* new KlippyWebsocket(addr) where no token is needed: connect() has created
\* the primary socket, which is not open yet
NewSocket ==
    [connected |-> FALSE, reconnect |-> TRUE, ws |-> "connecting",
     timer |-> FALSE, fetching |-> FALSE]

Init ==
    /\ id_counter = 0
    /\ methods = EmptyMap
    /\ pending_callbacks = EmptyMap
    /\ transport = NoTransport
    /\ onmessage = {}
    /\ promises = EmptyMap
    /\ aggregates = <<>>
    /\ invoked = EmptyMap
    /\ issued = <<>>
    /\ last = Idle
    /\ socket = NewSocket
    /\ other = NewEngine

-----------------------------------------------------------------------------
(* Builders.                                                               *)

\* _create_uid without its increment
_create_uid_stuck(counter) == [uid |-> NumberToString(counter), counter |-> counter]

\* _create_uid: the uid issued and the counter after it
_create_uid(counter) == [uid |-> NumberToString(counter), counter |-> counter + 1]

\* _build_request(method_name, uid, kwargs, ...args); args is the rest array
_build_request(method_name, uid, kwargs, args) ==
    LET r0 == Obj(<< <<"jsonrpc", Str("2.0")>>, <<"method", method_name>> >>)
        r1 == IF ~IsNullish(uid) THEN Put(r0, "id", uid) ELSE r0
    IN IF ~IsNullish(kwargs) THEN Put(r1, "params", kwargs)
       ELSE IF Len(args) > 0 THEN Put(r1, "params", Arr(args))
       ELSE r1

\* _build_error(message, code, request)
_build_error(message, code, request) ==
    LET error == Obj(<< <<"jsonrpc", Str("2.0")>>,
                        <<"error", Obj(<< <<"message", Str(message)>>,
                                          <<"code", Num(code)>> >>)>>,
                        <<"id", JNull>> >>)
    IN IF Has(request, "id") THEN Put(error, "id", Get(request, "id")) ELSE error

-----------------------------------------------------------------------------
(* Promises.                                                               *)

\* resolve(v) / reject(v) of the promise of uid: a settled promise stays
Settle(ps, uid, outcome) ==
    IF ps[uid].state = "pending" THEN [ps EXCEPT ![uid] = outcome] ELSE ps

\* A combinator that fulfils as soon as one of its promises does
PromiseAnyReact(agg, ps, uid) ==
    IF agg.state # "pending" \/ ~(\E i \in 1..Len(agg.items) : agg.items[i] = uid)
    THEN agg
    ELSE IF ps[uid].state = "rejected"
    THEN [agg EXCEPT !.state = "rejected", !.value = ps[uid].value]
    ELSE [agg EXCEPT !.state = "fulfilled", !.value = Arr(<<ps[uid].value>>)]

\* A combinator whose rejection is overwritten by every later rejection
PromiseAllReactLast(agg, ps, uid) ==
    IF agg.state = "fulfilled" \/ ~(\E i \in 1..Len(agg.items) : agg.items[i] = uid)
    THEN agg
    ELSE IF ps[uid].state = "rejected"
    THEN [agg EXCEPT !.state = "rejected", !.value = ps[uid].value]
    ELSE IF \A i \in 1..Len(agg.items) : ps[agg.items[i]].state = "fulfilled"
    THEN [agg EXCEPT !.state = "fulfilled",
                     !.value = Arr([i \in 1..Len(agg.items) |->
                                      ps[agg.items[i]].value])]
    ELSE agg

\* A combinator that waits for all of its promises to settle before it rejects
PromiseAllSettledReact(agg, ps, uid) ==
    IF agg.state # "pending" \/ ~(\E i \in 1..Len(agg.items) : agg.items[i] = uid)
    THEN agg
    ELSE IF \E i \in 1..Len(agg.items) : ps[agg.items[i]].state = "pending"
    THEN agg
    ELSE IF \E i \in 1..Len(agg.items) : ps[agg.items[i]].state = "rejected"
    THEN [agg EXCEPT !.state = "rejected", !.value = ps[uid].value]
    ELSE [agg EXCEPT !.state = "fulfilled",
                     !.value = Arr([i \in 1..Len(agg.items) |->
                                      ps[agg.items[i]].value])]

\* Promise.all(items) reacting to the settlement of the promise of uid
PromiseAllReact(agg, ps, uid) ==
    IF agg.state # "pending" \/ ~(\E i \in 1..Len(agg.items) : agg.items[i] = uid)
    THEN agg
    ELSE IF ps[uid].state = "rejected"
    THEN [agg EXCEPT !.state = "rejected", !.value = ps[uid].value]
    ELSE IF \A i \in 1..Len(agg.items) : ps[agg.items[i]].state = "fulfilled"
    THEN [agg EXCEPT !.state = "fulfilled",
                     !.value = Arr([i \in 1..Len(agg.items) |->
                                      ps[agg.items[i]].value])]
    ELSE agg

\* The closure stored by call_method and call_method_with_kwargs
CallClosure == [kind |-> "call", method |-> Undefined, index |-> 0]
\* A closure that numbers the entries of the batch from one
BatchClosureOneBased(name, idx) == [kind |-> "batch", method |-> name, index |-> idx + 1]
\* The closure stored by send_batch_request for entry idx
BatchClosure(name, idx) == [kind |-> "batch", method |-> name, index |-> idx]

\* What the closure passes to reject or resolve
ClosureOutcome(cb, result, error) ==
    IF cb.kind = "call"
    THEN IF ~IsNullish(error) THEN Rejected(error) ELSE Fulfilled(result)
    ELSE LET response == Obj(<< <<"method", cb.method>>,
                                <<"index", Num(cb.index)>> >>)
         IN IF ~IsNullish(error)
            THEN Rejected(Put(response, "error", error))
            ELSE Fulfilled(Put(response, "result", result))

\* response_finalize(result, error): the closure of uid runs
response_finalize(s, uid, result, error) ==
    LET ps == Settle(s.promises, uid,
                     ClosureOutcome(s.pending_callbacks[uid], result, error))
    IN [s EXCEPT !.promises = ps,
                 !.aggregates = [b \in DOMAIN s.aggregates |->
                                   PromiseAllReact(s.aggregates[b], ps, uid)],
                 !.invoked = [s.invoked EXCEPT ![uid] = @ + 1]]

-----------------------------------------------------------------------------
(* Inbound frames.  A handler works on s, the part of the state that       *)
(* process_received can change, with the frames sent and lines logged so   *)
(* far; s.threw names the exception that is propagating, if any.           *)

Received ==
    [pending_callbacks |-> pending_callbacks, promises |-> promises,
     aggregates |-> aggregates, invoked |-> invoked,
     out |-> <<>>, log |-> <<>>, threw |-> "none", calls |-> <<>>]

Log(s, line) == [s EXCEPT !.log = Append(@, line)]

\* The registered callables: echo returns its first argument, boom throws
\* Error("boom"), fail throws Error(""), raise throws the string "oops" and
\* void returns nothing.
Callables == {"echo", "boom", "fail", "raise", "void"}
\* What f(...args) does when f is called as a plain function (this is
\* undefined): toString returns the tag of undefined, valueOf throws.
Invoke(callable, args) ==
    CASE callable = "echo" ->
           [threw |-> FALSE,
            value |-> IF Len(args) > 0 THEN args[1] ELSE Undefined]
      [] callable = "boom" ->
           [threw |-> TRUE, value |-> ErrorObject("boom")]
      [] callable = "fail" ->
           [threw |-> TRUE, value |-> ErrorObject("")]
      [] callable = "raise" ->
           [threw |-> TRUE, value |-> Str("oops")]
      [] callable = "Object.prototype.toString" ->
           [threw |-> FALSE, value |-> Str("[object Undefined]")]
      [] callable = "Object.prototype.valueOf" ->
           [threw |-> TRUE,
            value |-> ErrorObject("Cannot convert undefined or null to object")]
      [] OTHER ->
           [threw |-> FALSE, value |-> Undefined]

\* response_finalize(...args) when pending_callbacks[uid] is a function the
\* map inherits: it is called, an exception it throws is not caught, and the
\* delete that follows finds no property to remove.
InheritedFinalize(s, uid, args) ==
    [s EXCEPT !.calls = Append(@, <<ObjectPrototype[uid], args>>),
              !.threw = IF Invoke(ObjectPrototype[uid], args).threw
                        THEN "TypeError" ELSE @]

\* _handle_response that completes the oldest pending call, whatever the id
_handle_response_by_arrival(s, response) ==
    LET result == Get(response, "result")
        error == Get(response, "error")
        waiting == DOMAIN s.pending_callbacks
    IN IF waiting = {}
       THEN Log(s, "No Registered RPC Call for uid:")
       ELSE LET uid == CHOOSE u \in waiting : TRUE
                f == IF ~IsNullish(result)
                     THEN response_finalize(s, uid, result, Undefined)
                     ELSE response_finalize(s, uid, JNull, error)
            IN [f EXCEPT !.pending_callbacks = Delete(@, uid)]

\* _handle_response that tests the error before the result
_handle_response_error_first(s, response) ==
    LET result == Get(response, "result")
        id == Get(response, "id")
        error == Get(response, "error")
        uid == PropertyKey(id)
    IN IF ~IsNullish(error)
       THEN IF uid \in DOMAIN s.pending_callbacks
            THEN LET f == response_finalize(s, uid, JNull, error)
                 IN [f EXCEPT !.pending_callbacks = Delete(@, uid)]
            ELSE Log(s, "JSON-RPC error recieved")
       ELSE IF ~IsNullish(result) /\ ~IsNullish(id)
       THEN IF uid \in DOMAIN s.pending_callbacks
            THEN LET f == response_finalize(s, uid, result, Undefined)
                 IN [f EXCEPT !.pending_callbacks = Delete(@, uid)]
            ELSE Log(s, "No Registered RPC Call for uid:")
       ELSE Log(s, "Invalid JSON-RPC response")

\* _handle_response without the delete of the pending entry
_handle_response_keep(s, response) ==
    LET result == Get(response, "result")
        id == Get(response, "id")
        error == Get(response, "error")
        uid == PropertyKey(id)
    IN IF ~IsNullish(result) /\ ~IsNullish(id)
       THEN IF uid \in DOMAIN s.pending_callbacks
            THEN response_finalize(s, uid, result, Undefined)
            ELSE Log(s, "No Registered RPC Call for uid:")
       ELSE IF ~IsNullish(error)
       THEN IF uid \in DOMAIN s.pending_callbacks
            THEN response_finalize(s, uid, JNull, error)
            ELSE Log(s, "JSON-RPC error recieved")
       ELSE Log(s, "Invalid JSON-RPC response")

\* _handle_response(response)
_handle_response(s, response) ==
    LET result == Get(response, "result")
        id == Get(response, "id")
        error == Get(response, "error")
        uid == PropertyKey(id)
    IN IF ~IsNullish(result) /\ ~IsNullish(id)
       THEN IF uid \in DOMAIN s.pending_callbacks
            THEN LET f == response_finalize(s, uid, result, Undefined)
                 IN [f EXCEPT !.pending_callbacks = Delete(@, uid)]
            ELSE IF Bound(s.pending_callbacks, uid)
            THEN InheritedFinalize(s, uid, <<result>>)
            ELSE Log(s, "No Registered RPC Call for uid:")
       ELSE IF ~IsNullish(error)
       THEN IF uid \in DOMAIN s.pending_callbacks
            THEN LET f == response_finalize(s, uid, JNull, error)
                 IN [f EXCEPT !.pending_callbacks = Delete(@, uid)]
            ELSE IF Bound(s.pending_callbacks, uid)
            THEN InheritedFinalize(s, uid, <<JNull, error>>)
            ELSE Log(s, "JSON-RPC error recieved")
       ELSE Log(s, "Invalid JSON-RPC response")

\* Arguments that pass params of any kind on to the method
CallArgumentsUnchecked(request) ==
    LET args == Get(request, "params")
    IN IF ~Has(request, "params") THEN [called |-> TRUE, args |-> <<>>]
       ELSE IF IsArray(args) THEN [called |-> TRUE, args |-> args[2]]
       ELSE [called |-> TRUE, args |-> <<args>>]

\* The arguments _handle_request calls the method with: none without params,
\* the items of an array, the object itself; called is FALSE for params of
\* any other kind, for which the method is not called.
CallArguments(request) ==
    LET args == Get(request, "params")
    IN IF ~Has(request, "params") THEN [called |-> TRUE, args |-> <<>>]
       ELSE IF IsArray(args) THEN [called |-> TRUE, args |-> args[2]]
       ELSE IF IsObject(args) THEN [called |-> TRUE, args |-> <<args>>]
       ELSE [called |-> FALSE, args |-> <<>>]

\* A response that answers every request with the id null
RequestResponseNullId(request, d, r) ==
    IF r.threw
    THEN _build_error(IF Has(r.value, "message")
                         /\ Get(r.value, "message") # Str("")
                      THEN Get(r.value, "message")[2]
                      ELSE "Server Error", -31000, request)
    ELSE IF ~d.called
    THEN _build_error("Invalid Parameters", -32602, request)
    ELSE IF Has(request, "id")
    THEN Obj(<< <<"jsonrpc", Str("2.0")>>, <<"result", r.value>>,
                <<"id", JNull>> >>)
    ELSE JNull

\* A response that is built whether or not the request carries an id
RequestResponseAlways(request, d, r) ==
    IF r.threw
    THEN _build_error(IF Has(r.value, "message")
                         /\ Get(r.value, "message") # Str("")
                      THEN Get(r.value, "message")[2]
                      ELSE "Server Error", -31000, request)
    ELSE IF ~d.called
    THEN _build_error("Invalid Parameters", -32602, request)
    ELSE Obj(<< <<"jsonrpc", Str("2.0")>>, <<"result", r.value>>,
                <<"id", Get(request, "id")>> >>)

\* The response _handle_request builds: d is CallArguments(request) and r the
\* outcome of the call (ret stays null when the method was not called).
RequestResponse(request, d, r) ==
    IF r.threw
    THEN _build_error(IF Has(r.value, "message")
                         /\ Get(r.value, "message") # Str("")
                      THEN Get(r.value, "message")[2]
                      ELSE "Server Error", -31000, request)
    ELSE IF ~d.called
    THEN _build_error("Invalid Parameters", -32602, request)
    ELSE IF Has(request, "id")
    THEN Obj(<< <<"jsonrpc", Str("2.0")>>, <<"result", r.value>>,
                <<"id", Get(request, "id")>> >>)
    ELSE JNull

\* _handle_request(request).  `"message" in error` in the catch block throws
\* a TypeError when the method threw a value that is not an object.
_handle_request(s, request) ==
    LET name == PropertyKey(Get(request, "method"))
    IN IF ~Bound(methods, name)
       THEN Log(s, "Invalid Method: ")
       ELSE
       LET method == Lookup(methods, name)
           d == CallArguments(request)
           r == IF d.called THEN Invoke(method, d.args)
                ELSE [threw |-> FALSE, value |-> JNull]
           s1 == IF d.called
                 THEN [s EXCEPT !.calls = Append(@, <<method, d.args>>)]
                 ELSE s
       IN IF r.threw /\ ~IsObject(r.value)
          THEN [s1 EXCEPT !.threw = "TypeError"]
          ELSE
          LET response == RequestResponse(request, d, r)
              logged == IF r.threw \/ ~d.called
                        THEN Log(s1, "JSON-RPC Request Error: ")
                        ELSE s1
          IN IF response # JNull /\ transport # NoTransport
             THEN [logged EXCEPT
                     !.out = Append(@, Send(transport,
                                            JSON_stringify(response)))]
             ELSE logged

\* A classification that looks for the method key first
_validate_and_dispatch_method_first(s, rpc_data) ==
    IF IsNullish(rpc_data)
    THEN [s EXCEPT !.threw = "TypeError"]
    ELSE IF Get(rpc_data, "jsonrpc") \notin {Str("2.0"), Num(2)}
    THEN Log(s, "Invalid JSON-RPC data")
    ELSE IF Has(rpc_data, "method")
    THEN _handle_request(s, rpc_data)
    ELSE IF Has(rpc_data, "result") \/ Has(rpc_data, "error")
    THEN _handle_response(s, rpc_data)
    ELSE Log(s, "Invalid JSON-RPC data")

\* _validate_and_dispatch(rpc_data).  Reading a property of null throws; the
\* tag is compared with !=, under which the number 2 equals "2.0".
_validate_and_dispatch(s, rpc_data) ==
    IF IsNullish(rpc_data)
    THEN [s EXCEPT !.threw = "TypeError"]
    ELSE IF Get(rpc_data, "jsonrpc") \notin {Str("2.0"), Num(2)}
    THEN Log(s, "Invalid JSON-RPC data")
    ELSE IF Has(rpc_data, "result") \/ Has(rpc_data, "error")
    THEN _handle_response(s, rpc_data)
    ELSE IF Has(rpc_data, "method")
    THEN _handle_request(s, rpc_data)
    ELSE Log(s, "Invalid JSON-RPC data")

\* for (let data of rpc_data) this._validate_and_dispatch(data), from item i
RECURSIVE DispatchFrom(_, _, _)
DispatchFrom(s, items, i) ==
    IF i > Len(items) \/ s.threw # "none"
    THEN s
    ELSE DispatchFrom(_validate_and_dispatch(s, items[i]), items, i + 1)

\* process_received(encoded_data) run on the pending map and promises of s
ProcessFrom(s, encoded_data) ==
    IF JSON_parse_throws(encoded_data)
    THEN [s EXCEPT !.threw = "SyntaxError"]
    ELSE LET rpc_data == JSON_parse(encoded_data)
         IN IF IsArray(rpc_data)
            THEN DispatchFrom(s, rpc_data[2], 1)
            ELSE _validate_and_dispatch(s, rpc_data)

\* process_received(encoded_data) as a function of the state
process_received(encoded_data) == ProcessFrom(Received, encoded_data)

\* A transport need only have a send method (register_transport, lines
\* 70-73).  The transports in LoopbackTransports answer in process: their
\* send(data) calls onmessage, before it returns, with a response carrying
\* the result "ok" for every request of data that has an id.  The other
\* transports deliver in later tasks (ProcessReceived).
LoopbackTransports == {"Loop"}
LoopbackAnswer(request) ==
    Obj(<< <<"jsonrpc", Str("2.0")>>, <<"result", Str("ok")>>,
           <<"id", Get(request, "id")>> >>)
Answerable(request) ==
    IsObject(request) /\ Has(request, "method") /\ Has(request, "id")
LoopbackReplies(data) ==
    LET sent == JSON_parse(data)
    IN IF IsArray(sent)
       THEN IF \E i \in 1..Len(sent[2]) : Answerable(sent[2][i])
            THEN <<JSON_stringify(Arr(SelectSeq(
                     [i \in 1..Len(sent[2]) |->
                        IF Answerable(sent[2][i])
                        THEN LoopbackAnswer(sent[2][i]) ELSE JNull],
                     LAMBDA f : f # JNull)))>>
            ELSE <<>>
       ELSE IF Answerable(sent)
       THEN <<JSON_stringify(LoopbackAnswer(sent))>>
       ELSE <<>>
\* this.transport.send(data), from the state s the caller has reached: what
\* the engine's state is when send returns
TransportSend(s, via, data) ==
    IF via \in LoopbackTransports /\ LoopbackReplies(data) # <<>>
    THEN ProcessFrom(s, LoopbackReplies(data)[1])
    ELSE s

-----------------------------------------------------------------------------
(* The public methods, one action each.                                    *)

\* register_method that keeps the callable a name was first registered with
register_method_keep_first(method_name, method) ==
    /\ last = Idle
    /\ UNCHANGED <<socket, other>>
    /\ methods' = IF method_name \in DOMAIN methods THEN methods
                  ELSE Extend(methods, method_name, method)
    /\ last' = Effect("register_method", <<method_name, method>>, <<>>, <<>>,
                      <<"none">>, "none")
    /\ UNCHANGED <<id_counter, pending_callbacks, transport, onmessage,
                   promises, aggregates, invoked, issued>>

\* register_method(method_name, method)
register_method(method_name, method) ==
    /\ last = Idle
    /\ UNCHANGED <<socket, other>>
    /\ methods' = Extend(methods, method_name, method)
    /\ last' = Effect("register_method", <<method_name, method>>, <<>>, <<>>,
                      <<"none">>, "none")
    /\ UNCHANGED <<id_counter, pending_callbacks, transport, onmessage,
                   promises, aggregates, invoked, issued>>

\* register_transport that keeps the transport it was first given
register_transport_keep_first(t) ==
    /\ last = Idle
    /\ UNCHANGED <<socket, other>>
    /\ transport' = IF transport = NoTransport THEN t ELSE transport
    /\ onmessage' = onmessage \cup {t}
    /\ last' = Effect("register_transport", t, <<>>, <<>>, <<"none">>, "none")
    /\ UNCHANGED <<id_counter, methods, pending_callbacks, promises,
                   aggregates, invoked, issued>>

\* register_transport(transport): transport.onmessage is a property of the
\* transport, so it stops being the process_received of any other instance.
register_transport(t) ==
    /\ last = Idle
    /\ UNCHANGED socket
    /\ other' = [other EXCEPT !.onmessage = @ \ {t}]
    /\ transport' = t
    /\ onmessage' = onmessage \cup {t}
    /\ last' = Effect("register_transport", t, <<>>, <<>>, <<"none">>, "none")
    /\ UNCHANGED <<id_counter, methods, pending_callbacks, promises,
                   aggregates, invoked, issued>>

\* The call body without its test of the transport
CallUnchecked(op, method_name, kwargs, args) ==
    LET c == _create_uid(id_counter)
        request == _build_request(method_name, Str(c.uid), kwargs, args)
    IN /\ last = Idle
       /\ id_counter < MaxId
       /\ id_counter' = c.counter
       /\ issued' = Append(issued, c.uid)
       /\ pending_callbacks' = Extend(pending_callbacks, c.uid, CallClosure)
       /\ promises' = Extend(promises, c.uid, Pending)
       /\ invoked' = Extend(invoked, c.uid, 0)
       /\ last' = Effect(op, <<method_name, kwargs, args>>,
                         <<Send(transport, JSON_stringify(request))>>,
                         <<>>, <<"promise", c.uid>>, "none")
       /\ UNCHANGED <<methods, transport, onmessage, aggregates>>

\* The body shared by call_method and call_method_with_kwargs: the uid is
\* created first, the request is sent and the closure stored only when a
\* transport is registered.
Call(op, method_name, kwargs, args) ==
    LET c == _create_uid(id_counter)
        request == _build_request(method_name, Str(c.uid), kwargs, args)
    IN /\ last = Idle
       /\ id_counter < MaxId
       /\ id_counter' = c.counter
       /\ issued' = Append(issued, c.uid)
       /\ IF transport # NoTransport
          THEN \* send comes first (lines 132, 150); the closure is stored
               \* by the promise created after send has returned
               \E r \in {TransportSend(Received, transport,
                                       JSON_stringify(request))} :
                  /\ pending_callbacks' =
                         Extend(r.pending_callbacks, c.uid, CallClosure)
                  /\ promises' = Extend(r.promises, c.uid, Pending)
                  /\ invoked' = Extend(r.invoked, c.uid, 0)
                  /\ aggregates' = r.aggregates
                  /\ last' =
                       [Effect(op, <<method_name, kwargs, args>>,
                               <<Send(transport, JSON_stringify(request))>>
                                  \o r.out,
                               r.log, <<"promise", c.uid>>, "none")
                          EXCEPT !.calls = r.calls]
          ELSE /\ promises' = Extend(promises, c.uid, NoTransportRejection)
               /\ last' = Effect(op, <<method_name, kwargs, args>>, <<>>, <<>>,
                                 <<"promise", c.uid>>, "none")
               /\ UNCHANGED <<pending_callbacks, invoked, aggregates>>
       /\ UNCHANGED <<methods, transport, onmessage>>

\* call_method(method_name, ...args)
call_method(method_name, args) ==
    /\ Call("call_method", method_name, JNull, args)
    /\ UNCHANGED <<socket, other>>

\* call_method_with_kwargs(method_name, kwargs)
call_method_with_kwargs(method_name, kwargs) ==
    /\ Call("call_method_with_kwargs", method_name, kwargs, <<>>)
    /\ UNCHANGED <<socket, other>>

\* notify that draws a uid for its frame, as call_method does
notify_with_uid(method_name, args) ==
    LET c == _create_uid(id_counter)
        notification == _build_request(method_name, Str(c.uid), JNull, args)
    IN /\ last = Idle
       /\ UNCHANGED <<socket, other>>
       /\ id_counter < MaxId
       /\ id_counter' = c.counter
       /\ issued' = Append(issued, c.uid)
       /\ last' = Effect("notify", <<method_name, JNull, args>>,
                         IF transport # NoTransport
                         THEN <<Send(transport, JSON_stringify(notification))>>
                         ELSE <<>>,
                         <<>>, <<"none">>, "none")
       /\ UNCHANGED <<methods, pending_callbacks, transport, onmessage,
                      promises, aggregates, invoked>>

\* notify that holds its frame back while a call is waiting for its response
notify_after_pending(method_name, args) ==
    LET notification == _build_request(method_name, JNull, JNull, args)
    IN /\ last = Idle
       /\ UNCHANGED <<socket, other>>
       /\ last' = Effect("notify", <<method_name, JNull, args>>,
                         IF transport # NoTransport
                            /\ DOMAIN pending_callbacks = {}
                         THEN <<Send(transport, JSON_stringify(notification))>>
                         ELSE <<>>,
                         <<>>, <<"none">>, "none")
       /\ UNCHANGED <<id_counter, methods, pending_callbacks, transport,
                      onmessage, promises, aggregates, invoked, issued>>

\* notify(method_name, ...args)
notify(method_name, args) ==
    LET notification == _build_request(method_name, JNull, JNull, args)
    IN /\ last = Idle
       /\ UNCHANGED <<socket, other>>
       /\ last' = Effect("notify", <<method_name, JNull, args>>,
                         IF transport # NoTransport
                         THEN <<Send(transport, JSON_stringify(notification))>>
                         ELSE <<>>,
                         <<>>, <<"none">>, "none")
       /\ UNCHANGED <<id_counter, methods, pending_callbacks, transport,
                      onmessage, promises, aggregates, invoked, issued>>

\* The forEach that gives every entry a uid, whatever its type
RECURSIVE BatchFromAllIds(_, _, _)
BatchFromAllIds(b, requests, idx) ==
    IF idx >= Len(requests) \/ b.threw # "none"
    THEN b
    ELSE
    LET request == requests[idx + 1]
        name == Get(request, "method")
        params == Get(request, "params")
        kwargs == IF Has(request, "params") /\ IsObject(params)
                  THEN params ELSE JNull
        c == _create_uid(b.id_counter)
        b1 == [b EXCEPT
                 !.id_counter = c.counter,
                 !.pending_callbacks =
                     Extend(@, c.uid, BatchClosure(name, idx)),
                 !.promises = Extend(@, c.uid, Pending),
                 !.invoked = Extend(@, c.uid, 0),
                 !.issued = Append(@, c.uid),
                 !.items = Append(@, c.uid),
                 !.batch_request =
                     Append(@, _build_request(name, Str(c.uid), kwargs, <<>>))]
    IN BatchFromAllIds(b1, requests, idx + 1)

\* The forEach of send_batch_request, from entry idx (0-based) on.  b holds
\* the counter, the closures and promises created and the frame built so far.
\* params that are not an object are spread (...args): a number, a boolean
\* or null is not iterable and the spread throws (a string would be spread
\* into its characters; the entries used here have no string params).
RECURSIVE BatchFrom(_, _, _)
BatchFrom(b, requests, idx) ==
    IF idx >= Len(requests) \/ b.threw # "none"
    THEN b
    ELSE
    LET request == requests[idx + 1]
        name == Get(request, "method")
        params == Get(request, "params")
        kwargs == IF Has(request, "params") /\ IsObject(params)
                  THEN params ELSE JNull
        spreadThrows == Has(request, "params") /\ ~IsObject(params)
        isRequest == Get(request, "type") = Str("request")
        c == _create_uid(b.id_counter)
        uid == IF isRequest THEN Str(c.uid) ELSE JNull
        b1 == IF isRequest
              THEN [b EXCEPT
                      !.id_counter = c.counter,
                      !.pending_callbacks =
                          Extend(@, c.uid, BatchClosure(name, idx)),
                      !.promises = Extend(@, c.uid, Pending),
                      !.invoked = Extend(@, c.uid, 0),
                      !.issued = Append(@, c.uid),
                      !.items = Append(@, c.uid)]
              ELSE b
        b2 == IF spreadThrows
              THEN [b1 EXCEPT !.threw = "TypeError"]
              ELSE [b1 EXCEPT !.batch_request =
                        Append(@, _build_request(name, uid, kwargs, <<>>))]
    IN BatchFrom(b2, requests, idx + 1)

\* A combinator that is pending at its creation even when given no promise
PromiseAllNeverEmpty(items) ==
    [items |-> items, state |-> "pending", value |-> Undefined]

\* Promise.all(promises) at its creation
PromiseAll(items) ==
    IF Len(items) = 0
    THEN [items |-> items, state |-> "fulfilled", value |-> Arr(<<>>)]
    ELSE [items |-> items, state |-> "pending", value |-> Undefined]

\* Promise.all(promises) once the promises already settled at its creation
\* have been seen, in the order of the array
RECURSIVE PromiseAllFrom(_, _, _)
PromiseAllFrom(agg, ps, i) ==
    IF i > Len(agg.items) THEN agg
    ELSE PromiseAllFrom(IF ps[agg.items[i]].state = "pending" THEN agg
                        ELSE PromiseAllReact(agg, ps, agg.items[i]),
                        ps, i + 1)

\* The number of entries of type "request"
RequestCount(requests) ==
    Cardinality({i \in 1..Len(requests) :
                   Get(requests[i], "type") = Str("request")})

\* send_batch_request that looks for the transport after it has built the
\* batch, as call_method does
send_batch_request_check_last(requests) ==
    /\ last = Idle
    /\ UNCHANGED <<socket, other>>
    /\ IF transport = NoTransport
       THEN \E b \in {BatchFrom([id_counter |-> id_counter,
                                 pending_callbacks |-> pending_callbacks,
                                 promises |-> promises, invoked |-> invoked,
                                 issued |-> issued,
                                 items |-> <<>>, batch_request |-> <<>>,
                                 threw |-> "none"], requests, 0)} :
               /\ id_counter + RequestCount(requests) <= MaxId
               /\ id_counter' = b.id_counter
               /\ pending_callbacks' = b.pending_callbacks
               /\ promises' = b.promises
               /\ invoked' = b.invoked
               /\ issued' = b.issued
               /\ last' = Effect("send_batch_request", requests, <<>>, <<>>,
                                 <<"settled", NoTransportRejection>>, "none")
               /\ UNCHANGED aggregates
       ELSE
       \E b \in {BatchFrom([id_counter |-> id_counter,
                            pending_callbacks |-> pending_callbacks,
                            promises |-> promises, invoked |-> invoked,
                            issued |-> issued,
                            items |-> <<>>, batch_request |-> <<>>,
                            threw |-> "none"], requests, 0)} :
          \* the closures are stored by the forEach, send comes after it
          \* (line 123) and Promise.all after send (line 124)
          \E r \in {LET stored == [Received EXCEPT
                                     !.pending_callbacks = b.pending_callbacks,
                                     !.promises = b.promises,
                                     !.invoked = b.invoked]
                    IN IF b.threw = "none"
                       THEN TransportSend(stored, transport,
                                          JSON_stringify(Arr(b.batch_request)))
                       ELSE stored} :
          /\ id_counter + RequestCount(requests) <= MaxId
          /\ id_counter' = b.id_counter
          /\ pending_callbacks' = r.pending_callbacks
          /\ promises' = r.promises
          /\ invoked' = r.invoked
          /\ issued' = b.issued
          /\ aggregates' = IF b.threw = "none" /\ Len(b.items) > 0
                           THEN Append(r.aggregates,
                                       PromiseAllFrom(PromiseAll(b.items),
                                                      r.promises, 1))
                           ELSE r.aggregates
          /\ last' = [Effect("send_batch_request", requests,
                             IF b.threw = "none"
                             THEN <<Send(transport,
                                         JSON_stringify(Arr(b.batch_request)))>>
                                     \o r.out
                             ELSE <<>>,
                             r.log,
                             IF b.threw # "none" THEN <<"none">>
                             ELSE IF Len(b.items) > 0
                             THEN <<"aggregate", Len(aggregates) + 1>>
                             ELSE <<"settled", PromiseAll(b.items)>>,
                             b.threw)
                        EXCEPT !.calls = r.calls]
    /\ UNCHANGED <<methods, transport, onmessage>>

\* send_batch_request(requests)
send_batch_request(requests) ==
    /\ last = Idle
    /\ UNCHANGED <<socket, other>>
    /\ IF transport = NoTransport
       THEN /\ last' = Effect("send_batch_request", requests, <<>>, <<>>,
                              <<"settled", NoTransportRejection>>, "none")
            /\ UNCHANGED <<id_counter, pending_callbacks, promises,
                           aggregates, invoked, issued>>
       ELSE
       \E b \in {BatchFrom([id_counter |-> id_counter,
                            pending_callbacks |-> pending_callbacks,
                            promises |-> promises, invoked |-> invoked,
                            issued |-> issued,
                            items |-> <<>>, batch_request |-> <<>>,
                            threw |-> "none"], requests, 0)} :
          \* the closures are stored by the forEach, send comes after it
          \* (line 123) and Promise.all after send (line 124)
          \E r \in {LET stored == [Received EXCEPT
                                     !.pending_callbacks = b.pending_callbacks,
                                     !.promises = b.promises,
                                     !.invoked = b.invoked]
                    IN IF b.threw = "none"
                       THEN TransportSend(stored, transport,
                                          JSON_stringify(Arr(b.batch_request)))
                       ELSE stored} :
          /\ id_counter + RequestCount(requests) <= MaxId
          /\ id_counter' = b.id_counter
          /\ pending_callbacks' = r.pending_callbacks
          /\ promises' = r.promises
          /\ invoked' = r.invoked
          /\ issued' = b.issued
          /\ aggregates' = IF b.threw = "none" /\ Len(b.items) > 0
                           THEN Append(r.aggregates,
                                       PromiseAllFrom(PromiseAll(b.items),
                                                      r.promises, 1))
                           ELSE r.aggregates
          /\ last' = [Effect("send_batch_request", requests,
                             IF b.threw = "none"
                             THEN <<Send(transport,
                                         JSON_stringify(Arr(b.batch_request)))>>
                                     \o r.out
                             ELSE <<>>,
                             r.log,
                             IF b.threw # "none" THEN <<"none">>
                             ELSE IF Len(b.items) > 0
                             THEN <<"aggregate", Len(aggregates) + 1>>
                             ELSE <<"settled", PromiseAll(b.items)>>,
                             b.threw)
                        EXCEPT !.calls = r.calls]
    /\ UNCHANGED <<methods, transport, onmessage>>

\* process_received over a pending map that all instances share: a completion
\* consumed here is consumed in the other instance too
ProcessReceivedShared(encoded_data) ==
    /\ last = Idle
    /\ UNCHANGED socket
    /\ \E r \in {process_received(encoded_data)} :
          LET done == DOMAIN pending_callbacks \ DOMAIN r.pending_callbacks
          IN /\ pending_callbacks' = r.pending_callbacks
             /\ promises' = r.promises
             /\ aggregates' = r.aggregates
             /\ invoked' = r.invoked
             /\ other' =
                  [other EXCEPT
                     !.pending_callbacks = [u \in DOMAIN @ \ done |-> @[u]],
                     !.promises =
                        [u \in DOMAIN @ |->
                           IF u \in done \cap DOMAIN other.pending_callbacks
                           THEN r.promises[u] ELSE @[u]]]
             /\ last' = [Effect("process_received", encoded_data, r.out,
                                r.log, <<"none">>, r.threw)
                            EXCEPT !.calls = r.calls]
    /\ UNCHANGED <<id_counter, methods, transport, onmessage, issued>>

\* process_received(encoded_data), started by from
Receive(from, encoded_data) ==
    /\ last = Idle
    /\ UNCHANGED <<socket, other>>
    /\ \E r \in {process_received(encoded_data)} :
          /\ pending_callbacks' = r.pending_callbacks
          /\ promises' = r.promises
          /\ aggregates' = r.aggregates
          /\ invoked' = r.invoked
          /\ last' = [Effect("process_received", encoded_data, r.out, r.log,
                             <<"none">>, r.threw)
                        EXCEPT !.calls = r.calls, !.from = from]
    /\ UNCHANGED <<id_counter, methods, transport, onmessage, issued>>

\* process_received(encoded_data), called on the engine
ProcessReceived(encoded_data) == Receive("caller", encoded_data)

\* t.onmessage(encoded_data), called by the transport t: it is the
\* process_received that register_transport bound (line 75) for as long as
\* nothing else is assigned to it, and nothing in the engine does so.
TransportOnmessage(t, encoded_data) ==
    /\ t \in onmessage
    /\ Receive(t, encoded_data)

\* KlippyWebsocket.send(data): what is written to the socket
KlippyWebsocket_send(sock, data) ==
    IF sock.connected THEN <<data>> ELSE <<>>

\* An onclose that cancels the pending requests, as its TODO asks
ws_onclose_cancels ==
    /\ last = Idle
    /\ transport # NoTransport
    /\ socket.ws # "closed"
    /\ socket' = [socket EXCEPT !.connected = FALSE, !.ws = "closed",
                                !.timer = @ \/ socket.reconnect]
    /\ pending_callbacks' = EmptyMap
    /\ promises' = [u \in DOMAIN promises |->
                      IF u \in DOMAIN pending_callbacks
                      THEN Rejected(ErrorObject("Websocket Closed"))
                      ELSE promises[u]]
    /\ last' = Effect("ws_onclose", Undefined, <<>>, <<>>, <<"none">>, "none")
    /\ UNCHANGED <<id_counter, methods, transport, onmessage, aggregates,
                   invoked, issued, other>>

\* ws.onclose of the KlippyWebsocket that is the transport: connected is
\* cleared and, if this.reconnect, the 1 s reconnect timer is set; the
\* pending requests are left alone (TODO in the source).
ws_onclose ==
    /\ last = Idle
    /\ transport # NoTransport
    /\ socket.ws # "closed"
    /\ socket' = [socket EXCEPT !.connected = FALSE, !.ws = "closed",
                                !.timer = @ \/ socket.reconnect]
    /\ last' = Effect("ws_onclose", Undefined, <<>>, <<>>, <<"none">>, "none")
    /\ UNCHANGED <<id_counter, methods, pending_callbacks, transport,
                   onmessage, promises, aggregates, invoked, issued, other>>

\* The kwargs of connection_identify, abridged
IdentifyArgs == Obj(<< <<"client_name", Str("moontest")>> >>)

\* ws.onopen of the socket a (re)connect created: connected is set and
\* connection_identify() runs, which calls server.connection.identify unless
\* it returns early (the websocket has an id, or the token is refreshed).
ws_onopen(identify) ==
    /\ transport # NoTransport
    /\ socket.ws = "connecting"
    /\ socket' = [socket EXCEPT !.connected = TRUE, !.ws = "open"]
    /\ IF identify
       THEN Call("call_method_with_kwargs", Str("server.connection.identify"),
                 IdentifyArgs, <<>>)
       ELSE /\ last = Idle
            /\ last' = Effect("ws_onopen", Undefined, <<>>, <<>>,
                              <<"none">>, "none")
            /\ UNCHANGED <<id_counter, methods, pending_callbacks, transport,
                           onmessage, promises, aggregates, invoked, issued>>
    /\ UNCHANGED other

\* What an event of the KlippyWebsocket did to it; the engine is not touched
SocketEvent(op, input, ret) ==
    /\ last = Idle
    /\ last' = Effect(op, input, <<>>, <<>>, ret, "none")
    /\ UNCHANGED <<id_counter, methods, pending_callbacks, transport,
                   onmessage, promises, aggregates, invoked, issued, other>>

\* ws.onerror: this.ws.close(), after which the socket's onclose fires
ws_onerror ==
    /\ socket.ws \in {"connecting", "open"}
    /\ socket' = [socket EXCEPT !.ws = "closing"]
    /\ SocketEvent("ws_onerror", Undefined, <<"none">>)

\* connect(): with an api key or an access token the one-shot token is
\* fetched first, otherwise the primary socket is created at once
connect(sock, withToken) ==
    IF withToken THEN [sock EXCEPT !.fetching = TRUE]
    ELSE [sock EXCEPT !.ws = "connecting", !.connected = FALSE]

\* The callback of the 1 s timer set by ws.onclose or by a failed fetch:
\* if (this.reconnect) this.connect()
reconnect_timer(withToken) ==
    /\ socket.timer
    /\ socket' = IF socket.reconnect
                 THEN connect([socket EXCEPT !.timer = FALSE], withToken)
                 ELSE [socket EXCEPT !.timer = FALSE]
    /\ SocketEvent("reconnect_timer", withToken,
                   IF socket.reconnect /\ ~withToken
                   THEN <<"WebSocket">> ELSE <<"none">>)

\* The callbacks of the one-shot-token fetch of connect(): on success
\* _create_primary_socket(token), on failure the 1 s timer if this.reconnect
oneshot_token(ok) ==
    /\ socket.fetching
    /\ socket' = IF ok
                 THEN [socket EXCEPT !.fetching = FALSE, !.ws = "connecting",
                                     !.connected = FALSE]
                 ELSE [socket EXCEPT !.fetching = FALSE,
                                     !.timer = @ \/ socket.reconnect]
    /\ SocketEvent("oneshot_token", ok,
                   IF ok THEN <<"WebSocket">> ELSE <<"none">>)

\* close(): this.reconnect = false; this.ws.close()
close ==
    /\ socket' = [socket EXCEPT
                    !.reconnect = FALSE,
                    !.ws = IF @ \in {"connecting", "open"} THEN "closing"
                           ELSE @]
    /\ SocketEvent("close", Undefined, <<"none">>)

\* The operation has returned to its caller; the next task may start.  The
\* engine is single-threaded: operations never overlap.
\* The page holds two instances; the next operations run on the other one
\* (this is the other object).
SwitchInstance ==
    /\ last = Idle
    /\ other # Snapshot
    /\ other' = Snapshot
    /\ id_counter' = other.id_counter
    /\ methods' = other.methods
    /\ pending_callbacks' = other.pending_callbacks
    /\ transport' = other.transport
    /\ onmessage' = other.onmessage
    /\ promises' = other.promises
    /\ aggregates' = other.aggregates
    /\ invoked' = other.invoked
    /\ issued' = other.issued
    /\ UNCHANGED <<last, socket>>

EndTask ==
    /\ last # Idle
    /\ UNCHANGED <<socket, other>>
    /\ last' = Idle
    /\ UNCHANGED <<id_counter, methods, pending_callbacks, transport,
                   onmessage, promises, aggregates, invoked, issued>>

-----------------------------------------------------------------------------
(* The inputs the operations are driven with.                              *)

MethodNames == {Str("a")}
ArgLists == {<<>>, <<Num(1)>>}
\* kwargs: null, {}, {v: 5} and {root: undefined}, which is what
\* get_file_list() passes when it is called without an argument
KwargsValues ==
    {JNull, Obj(<<>>), Obj(<< <<"v", Num(5)>> >>),
     Obj(<< <<"root", Undefined>> >>)}

\* The entries a batch is made of
BatchEntry(name, type, params) ==
    LET e == Obj(<< <<"method", Str(name)>>, <<"type", Str(type)>> >>)
    IN IF params = Undefined THEN e ELSE Put(e, "params", params)
BatchEntries ==
    {BatchEntry("b", "notification", Undefined),
     BatchEntry("c", "request", Obj(<< <<"script", Str("G28")>> >>))}
RECURSIVE SeqsUpTo(_, _)
SeqsUpTo(S, n) ==
    IF n = 0 THEN {<<>>}
    ELSE LET shorter == SeqsUpTo(S, n - 1)
         IN shorter \cup {Append(q, e) : q \in shorter, e \in S}
Batches == SeqsUpTo(BatchEntries, MaxBatch)

\* The uids the engine can have issued
IssuedIds == {NumberToString(i) : i \in 0..(MaxId - 1)}

RemoteError ==
    Obj(<< <<"code", Num(-32601)>>, <<"message", Str("Method not found")>> >>)

WithField(o, k, v) == IF v = Undefined THEN o ELSE Put(o, k, v)
\* A frame with the given protocol tag; Undefined leaves the field out
Frame(tag, method, params, result, error, id) ==
    WithField(WithField(WithField(WithField(WithField(
        Obj(<< <<"jsonrpc", Str(tag)>> >>),
        "method", method), "params", params), "result", result),
        "error", error), "id", id)

ResponseFrames ==
    {Frame("2.0", Undefined, Undefined, r, e, i) :
        r \in {Undefined, JNull, Str("ra")},
        e \in {Undefined, JNull, RemoteError},
        i \in {Str(u) : u \in IssuedIds} \cup {Num(0), JNull, Undefined}}
\* the answers a peer gives to the entries of a batch, in one array frame
AnswerFrames ==
    [u \in {"0", "1"} |->
        {Frame("2.0", Undefined, Undefined, Str("ra"), Undefined, Str(u)),
         Frame("2.0", Undefined, Undefined, Undefined, RemoteError, Str(u))}]
ArrayFrames ==
    {Arr(<<f, g>>) : f \in AnswerFrames["0"], g \in AnswerFrames["1"]}
    \cup {Arr(<<g, f>>) : f \in AnswerFrames["0"], g \in AnswerFrames["1"]}
OtherFrames ==
    {Frame("1.0", Undefined, Undefined, Str("ra"), Undefined, Str("0")),
     Frame("2.0", Str("echo"), Obj(<< <<"v", Num(5)>> >>), Undefined,
           Undefined, Str("7")),
     Frame("2.0", Str("echo"), Undefined, Undefined, Undefined, Undefined)}
Inbound ==
    {JSON_stringify(f) : f \in ResponseFrames \cup ArrayFrames \cup OtherFrames}
    \cup {Garbage}

Next ==
    \/ \E t \in Transports : register_transport(t)
    \/ \E m \in MethodNames, a \in ArgLists : call_method(m, a)
    \/ \E m \in MethodNames, k \in KwargsValues : call_method_with_kwargs(m, k)
    \/ \E m \in MethodNames, a \in ArgLists : notify(m, a)
    \/ \E requests \in Batches : send_batch_request(requests)
    \/ \E text \in Inbound : ProcessReceived(text)
    \/ EndTask

Spec == Init /\ [][Next]_vars

-----------------------------------------------------------------------------
(* The engine as a server: methods are registered and the peer sends       *)
(* requests, notifications, responses for known and unknown ids and        *)
(* invalid data.                                                           *)

\* The name the methods are registered under
RegisteredNames == {"echo"}
\* The params of an inbound request: none, an array, an object, a number, a
\* string, a boolean and null
ParamsShapes ==
    {Undefined, Arr(<<Num(1)>>), Obj(<< <<"v", Num(5)>> >>),
     Num(3), Str("s"), Bool(TRUE), JNull}
\* Requests (id "7") and notifications (no id) for the registered name, for a
\* name nobody registers, and for names of Object.prototype
RequestFrames ==
    {Frame("2.0", Str("echo"), p, Undefined, Undefined, i) :
        p \in ParamsShapes, i \in {Undefined, Str("7")}}
    \cup {Frame("2.0", Str(m), Undefined, Undefined, Undefined, i) :
            m \in {"nope", "toString", "valueOf"}, i \in {Undefined, Str("7")}}
\* Responses for the first uid, for a uid never issued, for keys of
\* Object.prototype and without id; without result and error the frame has
\* none of the keys result, error and method
AnswerIds == {Str("0"), Str("9"), Str("toString"), Str("valueOf"), Undefined}
DispatchResponseFrames ==
    {Frame("2.0", Undefined, Undefined, r, e, i) :
        r \in {Undefined, Str("ra")}, e \in {Undefined, RemoteError},
        i \in AnswerIds}
    \cup {Frame("2.0", Str("echo"), Undefined, Str("ra"), Undefined, Str(u)) :
            u \in {"0", "9"}}
\* Decoded values that are not frames of protocol "2.0": another tag, no tag,
\* the number 2 as tag, null, a number, a string, a boolean
InvalidFrames ==
    {Frame("1.0", Undefined, Undefined, Str("ra"), Undefined, Str("0")),
     Frame("1.0", Str("echo"), Undefined, Undefined, Undefined, Str("7")),
     Obj(<< <<"result", Str("ra")>>, <<"id", Str("0")>> >>),
     Obj(<< <<"method", Str("echo")>>, <<"id", Str("7")>> >>),
     Put(Frame("2.0", Undefined, Undefined, Str("ra"), Undefined, Str("0")),
         "jsonrpc", Num(2)),
     JNull, Num(5), Str("x"), Bool(TRUE)}
\* Array frames of two elements: the response to the first uid behind an
\* element that is invalid, orphaned, for an unregistered method, with bad
\* params, or for the registered method (which may throw); and two requests
\* with different ids for the registered method
DispatchArrayFrames ==
    {Arr(<<f, Frame("2.0", Undefined, Undefined, Str("ra"), Undefined,
                    Str("0"))>>) :
        f \in {JNull,
               Frame("1.0", Undefined, Undefined, Str("ra"), Undefined,
                     Str("9")),
               Frame("2.0", Undefined, Undefined, Str("ra"), Undefined,
                     Str("9")),
               Frame("2.0", Undefined, Undefined, Str("ra"), Undefined,
                     Str("valueOf")),
               Frame("2.0", Str("nope"), Undefined, Undefined, Undefined,
                     Str("7")),
               Frame("2.0", Str("echo"), Num(3), Undefined, Undefined,
                     Str("7")),
               Frame("2.0", Str("echo"), Undefined, Undefined, Undefined,
                     Str("7"))}}
    \cup {Arr(<<Frame("2.0", Str("echo"), Obj(<< <<"v", Num(5)>> >>),
                      Undefined, Undefined, Str("7")),
                Frame("2.0", Str("echo"), Arr(<<Num(1)>>),
                      Undefined, Undefined, Str("8"))>>)}
DispatchInbound ==
    {JSON_stringify(f) :
        f \in RequestFrames \cup DispatchResponseFrames \cup InvalidFrames
               \cup DispatchArrayFrames}

NextDispatch ==
    \/ \E n \in RegisteredNames, c \in Callables : register_method(n, c)
    \/ \E t \in Transports : register_transport(t)
    \/ \E m \in MethodNames, a \in ArgLists : call_method(m, a)
    \/ \E text \in DispatchInbound : ProcessReceived(text)
    \/ EndTask

SpecDispatch == Init /\ [][NextDispatch]_vars

-----------------------------------------------------------------------------
(* The dispatch table: two names are registered and registered again, and  *)
(* the peer sends requests and notifications for both.                     *)

RegistryNames == {"echo", "ping"}
RegistryCallables == {"echo", "void", "boom"}
RegistryInbound ==
    {JSON_stringify(Frame("2.0", Str(n), Obj(<< <<"v", Num(5)>> >>),
                          Undefined, Undefined, i)) :
        n \in RegistryNames, i \in {Undefined, Str("7")}}

NextRegistry ==
    \/ \E n \in RegistryNames, c \in RegistryCallables : register_method(n, c)
    \/ \E t \in Transports : register_transport(t)
    \/ \E text \in RegistryInbound : ProcessReceived(text)
    \/ EndTask

SpecRegistry == Init /\ [][NextRegistry]_vars

-----------------------------------------------------------------------------
(* Two instances of the engine in one page, each with its own transport or *)
(* with the same one, driven in any interleaving.                          *)

InstanceTransports == {"T1", "T2"}
InstanceInbound ==
    {JSON_stringify(f) :
        f \in {Frame("2.0", Undefined, Undefined, Str("ra"), Undefined,
                     Str("0")),
               Frame("2.0", Undefined, Undefined, Undefined, RemoteError,
                     Str("0")),
               Frame("2.0", Str("echo"), Undefined, Undefined, Undefined,
                     Str("7"))}}

NextInstances ==
    \/ SwitchInstance
    \/ \E t \in InstanceTransports : register_transport(t)
    \/ \E n \in RegisteredNames : register_method(n, "echo")
    \/ \E m \in MethodNames : call_method(m, <<>>)
    \/ \E m \in MethodNames : notify(m, <<>>)
    \/ \E text \in InstanceInbound : ProcessReceived(text)
    \/ EndTask

SpecInstances == Init /\ [][NextInstances]_vars

-----------------------------------------------------------------------------
(* The engine over a transport that answers during send, next to one that  *)
(* answers in a later task.                                                *)

LoopbackSessionTransports == {"T1"} \cup LoopbackTransports
LoopbackBatches ==
    {<<BatchEntry("c", "request", Undefined)>>,
     <<BatchEntry("b", "notification", Undefined),
       BatchEntry("c", "request", Undefined)>>}
LoopbackInbound ==
    {JSON_stringify(Frame("2.0", Undefined, Undefined, Str("ra"), Undefined,
                          Str(u))) : u \in {"0", "1"}}

NextLoopback ==
    \/ \E t \in LoopbackSessionTransports : register_transport(t)
    \/ \E m \in MethodNames : call_method(m, <<>>)
    \/ \E m \in MethodNames :
          call_method_with_kwargs(m, Obj(<< <<"v", Num(5)>> >>))
    \/ \E m \in MethodNames : notify(m, <<>>)
    \/ \E requests \in LoopbackBatches : send_batch_request(requests)
    \/ \E text \in LoopbackInbound : ProcessReceived(text)
    \/ EndTask

SpecLoopback == Init /\ [][NextLoopback]_vars

-----------------------------------------------------------------------------
(* A transport is replaced by another while both can still deliver frames. *)

ReplacedTransports == {"T1", "T2"}
ReplacedInbound ==
    {JSON_stringify(f) :
        f \in {Frame("2.0", Undefined, Undefined, Str("ra"), Undefined,
                     Str("0")),
               Frame("2.0", Undefined, Undefined, Undefined, RemoteError,
                     Str("1")),
               Frame("2.0", Str("echo"), Obj(<< <<"v", Num(5)>> >>),
                     Undefined, Undefined, Str("7"))}}

NextReplaced ==
    \/ \E t \in ReplacedTransports : register_transport(t)
    \/ \E n \in RegisteredNames : register_method(n, "echo")
    \/ \E m \in MethodNames : call_method(m, <<>>)
    \/ \E t \in ReplacedTransports, text \in ReplacedInbound :
          TransportOnmessage(t, text)
    \/ EndTask

SpecReplaced == Init /\ [][NextReplaced]_vars

-----------------------------------------------------------------------------
(* A peer that answers every request it was sent, once, in a later task,   *)
(* with a result or with an error; the event loop runs every task to its   *)
(* end, and the peer leaves no request unanswered for ever.                *)

PeerAnswers(uid) ==
    {JSON_stringify(Frame("2.0", Undefined, Undefined, Str("ra"), Undefined,
                          Str(uid))),
     JSON_stringify(Frame("2.0", Undefined, Undefined, Undefined, RemoteError,
                          Str(uid)))}
AnswerPending(uid) ==
    /\ uid \in DOMAIN pending_callbacks
    /\ \E text \in PeerAnswers(uid) : ProcessReceived(text)

AnsweredBatches ==
    {<<BatchEntry("c", "request", Undefined),
       BatchEntry("b", "notification", Undefined),
       BatchEntry("c", "request", Undefined)>>}

NextAnswered ==
    \/ \E t \in Transports : register_transport(t)
    \/ \E m \in MethodNames : call_method(m, <<>>)
    \/ \E m \in MethodNames :
          call_method_with_kwargs(m, Obj(<< <<"v", Num(5)>> >>))
    \/ \E requests \in AnsweredBatches : send_batch_request(requests)
    \/ \E uid \in IssuedIds : AnswerPending(uid)
    \/ EndTask

SpecAnswered ==
    /\ Init
    /\ [][NextAnswered]_vars
    /\ WF_vars(EndTask)
    /\ \A uid \in IssuedIds : SF_vars(AnswerPending(uid))

-----------------------------------------------------------------------------
(* The life of one KlippyWebsocket: its socket opens, fails and closes, the *)
(* reconnect timer and the token fetch run, and the page calls close().    *)

NextSocket ==
    \/ \E t \in Transports : register_transport(t)
    \/ \E identify \in BOOLEAN : ws_onopen(identify)
    \/ ws_onerror
    \/ ws_onclose
    \/ \E withToken \in BOOLEAN : reconnect_timer(withToken)
    \/ \E ok \in BOOLEAN : oneshot_token(ok)
    \/ close
    \/ EndTask

SpecSocket == Init /\ [][NextSocket]_vars

-----------------------------------------------------------------------------
(* A session of the page: create_websocket registers a new KlippyWebsocket *)
(* (T1, then T2), sockets open and close, calls of every kind are made and *)
(* the peer answers and sends requests.                                    *)

SessionTransports == {"T1", "T2"}
SessionBatches ==
    {<<BatchEntry("b", "notification", Undefined)>>,
     <<BatchEntry("c", "request", Obj(<< <<"script", Str("G28")>> >>))>>}
SessionInbound ==
    {JSON_stringify(f) :
        f \in {Frame("2.0", Undefined, Undefined, Str("ra"), Undefined,
                     Str("0")),
               Frame("2.0", Undefined, Undefined, Undefined, RemoteError,
                     Str("0")),
               Frame("2.0", Undefined, Undefined, Str("rb"), Undefined,
                     Str("1")),
               Frame("2.0", Str("echo"), Obj(<< <<"v", Num(5)>> >>),
                     Undefined, Undefined, Str("7")),
               Frame("1.0", Undefined, Undefined, Str("ra"), Undefined,
                     Str("0"))}}
    \cup {Garbage}

NextSession ==
    \/ \E t \in SessionTransports : register_transport(t)
    \/ \E m \in MethodNames : call_method(m, <<>>)
    \/ \E m \in MethodNames :
          call_method_with_kwargs(m, Obj(<< <<"v", Num(5)>> >>))
    \/ \E m \in MethodNames : notify(m, <<>>)
    \/ \E requests \in SessionBatches : send_batch_request(requests)
    \/ \E n \in RegisteredNames : register_method(n, "echo")
    \/ \E text \in SessionInbound : ProcessReceived(text)
    \/ ws_onclose
    \/ \E identify \in BOOLEAN : ws_onopen(identify)
    \/ \E withToken \in BOOLEAN : reconnect_timer(withToken)
    \/ \E ok \in BOOLEAN : oneshot_token(ok)
    \/ EndTask

SpecSession == Init /\ [][NextSession]_vars

-----------------------------------------------------------------------------
(* What the properties below read off the last operation.                  *)

IsCall == last.op \in {"call_method", "call_method_with_kwargs"}
IsReceive == last.op = "process_received"
\* The frames of the text process_received was given, in array order
LastFrames ==
    IF ~IsReceive \/ JSON_parse_throws(last.input) THEN <<>>
    ELSE IF IsArray(JSON_parse(last.input)) THEN JSON_parse(last.input)[2]
    ELSE <<JSON_parse(last.input)>>
\* process_received was given one frame, not an array
IsSingleFrame ==
    IsReceive /\ ~JSON_parse_throws(last.input)
              /\ ~IsArray(JSON_parse(last.input))
LastFrame == JSON_parse(last.input)
TagOk(f) == Get(f, "jsonrpc") = Str("2.0")
NonNull(v) == v \notin {JNull, Undefined}
\* The uid a frame's id names in the pending map
KeyOf(f) == PropertyKey(Get(f, "id"))
\* f answers a call that was pending when process_received started
AnswersPending(f) ==
    /\ TagOk(f)
    /\ NonNull(Get(f, "id"))
    /\ KeyOf(f) \in DOMAIN last.pre.pending_callbacks
\* The decimal numerals, to read a uid as an integer
Decimal == <<"0", "1", "2", "3", "4", "5", "6", "7", "8", "9", "10", "11">>
ParseInt(u) == (CHOOSE i \in 1..Len(Decimal) : Decimal[i] = u) - 1

-----------------------------------------------------------------------------
\* C1: a call's promise is settled only by a frame that carries the call's
\* own id, and with that frame's result or error; a frame with a non-null
\* result (or, failing that, a non-null error) for a pending call settles
\* exactly that call, whatever the order in which the calls were made.
C1_CorrelatedById ==
    IsReceive =>
      /\ \A u \in DOMAIN promises :
            (/\ promises[u] # last.pre.promises[u]
             /\ last.pre.pending_callbacks[u].kind = "call")
            => \E i \in 1..Len(LastFrames) :
                  /\ KeyOf(LastFrames[i]) = u
                  /\ \/ /\ NonNull(Get(LastFrames[i], "result"))
                        /\ promises[u] = Fulfilled(Get(LastFrames[i], "result"))
                     \/ /\ NonNull(Get(LastFrames[i], "error"))
                        /\ promises[u] = Rejected(Get(LastFrames[i], "error"))
      /\ (/\ IsSingleFrame
          /\ AnswersPending(LastFrame)
          /\ last.pre.pending_callbacks[KeyOf(LastFrame)].kind = "call")
         => /\ (NonNull(Get(LastFrame, "result"))
                  /\ ~NonNull(Get(LastFrame, "error")))
               => promises[KeyOf(LastFrame)]
                     = Fulfilled(Get(LastFrame, "result"))
            /\ (~NonNull(Get(LastFrame, "result"))
                  /\ NonNull(Get(LastFrame, "error")))
               => promises[KeyOf(LastFrame)]
                     = Rejected(Get(LastFrame, "error"))
            /\ \A u \in DOMAIN promises :
                  u # KeyOf(LastFrame) => promises[u] = last.pre.promises[u]

\* The call with uid "1" was answered while the earlier call "0" still waits.
C1_Witness ==
    /\ IsSingleFrame
    /\ KeyOf(LastFrame) = "1"
    /\ "0" \in DOMAIN pending_callbacks
    /\ pending_callbacks["0"].kind = "call"
    /\ "1" \in DOMAIN last.pre.pending_callbacks
    /\ last.pre.pending_callbacks["1"].kind = "call"
    /\ last.pre.promises["1"].state = "pending"
    /\ promises["1"].state = "fulfilled"

\* C2: the uids issued are pairwise distinct, the first is "0", they strictly
\* increase when read as integers, and none is issued while a pending
\* completion for it exists.
C2_UidsIncrease ==
    /\ Len(issued) > 0 => issued[1] = "0"
    /\ \A i, j \in 1..Len(issued) :
          i < j => /\ issued[i] # issued[j]
                   /\ ParseInt(issued[i]) < ParseInt(issued[j])
    /\ \A i \in (Len(last.pre.issued) + 1)..Len(issued) :
          last # Idle => issued[i] \notin DOMAIN last.pre.pending_callbacks

\* A batch was sent while the call before it is still pending: the uid of
\* its request entry follows the call's.
C2_Witness ==
    /\ last.op = "send_batch_request"
    /\ last.pre.issued = <<"0">>
    /\ issued = <<"0", "1">>
    /\ "0" \in DOMAIN last.pre.pending_callbacks

\* What the closure of uid handed to its promise: the result or the error
PayloadOf(u) ==
    IF last.pre.pending_callbacks[u].kind = "call"
    THEN promises[u].value
    ELSE Get(promises[u].value,
             IF promises[u].state = "fulfilled" THEN "result" ELSE "error")

\* C3 (as claimed): a response frame with a result key and the id of a
\* pending call fulfils that call's promise with the result and removes the
\* pending entry, for every value of result, null included.
C3_ResultCompletes ==
    (/\ IsSingleFrame
     /\ AnswersPending(LastFrame)
     /\ Has(LastFrame, "result")
     /\ ~Has(LastFrame, "error"))
    => /\ promises[KeyOf(LastFrame)].state = "fulfilled"
       /\ PayloadOf(KeyOf(LastFrame)) = Get(LastFrame, "result")
       /\ KeyOf(LastFrame) \notin DOMAIN pending_callbacks

\* C4 (as claimed): a response with a non-null id and a non-null error
\* rejects the pending call with the error, whatever its result field holds.
C4_ErrorFirst ==
    (/\ IsSingleFrame
     /\ AnswersPending(LastFrame)
     /\ NonNull(Get(LastFrame, "error")))
    => /\ promises[KeyOf(LastFrame)].state = "rejected"
       /\ PayloadOf(KeyOf(LastFrame)) = Get(LastFrame, "error")

\* C4 (amended): a response with a non-null id and a non-null error rejects
\* the pending call with the error when its result is null or absent; when
\* the result is non-null the result is tested first and the call is
\* fulfilled with it.
C4_ResultFirst ==
    (/\ IsSingleFrame
     /\ AnswersPending(LastFrame)
     /\ NonNull(Get(LastFrame, "error")))
    => /\ KeyOf(LastFrame) \notin DOMAIN pending_callbacks
       /\ IF NonNull(Get(LastFrame, "result"))
          THEN /\ promises[KeyOf(LastFrame)].state = "fulfilled"
               /\ PayloadOf(KeyOf(LastFrame)) = Get(LastFrame, "result")
          ELSE /\ promises[KeyOf(LastFrame)].state = "rejected"
               /\ PayloadOf(KeyOf(LastFrame)) = Get(LastFrame, "error")

\* A frame with both a non-null result and a non-null error answered a
\* pending call, which was fulfilled.
C4_Witness ==
    /\ IsSingleFrame
    /\ AnswersPending(LastFrame)
    /\ NonNull(Get(LastFrame, "error"))
    /\ NonNull(Get(LastFrame, "result"))
    /\ promises[KeyOf(LastFrame)].state = "fulfilled"

\* The frame reaches a lookup of the pending map: the result branch or,
\* failing that, the error branch of _handle_response
ReachesLookup(f) ==
    /\ TagOk(f)
    /\ \/ NonNull(Get(f, "result")) /\ NonNull(Get(f, "id"))
       \/ NonNull(Get(f, "error"))

\* C5: the closure of a uid is invoked at most once; the response that
\* invokes it is the first one for a pending uid that reaches the lookup, and
\* it removes the entry in the same step; a later response carrying the same
\* id changes nothing, sends nothing and is only logged.
C5_ExactlyOnce ==
    /\ \A u \in DOMAIN invoked :
          /\ invoked[u] <= 1
          /\ u \in DOMAIN pending_callbacks => invoked[u] = 0
          /\ invoked[u] = 1 => promises[u].state # "pending"
          /\ invoked[u] = 0 => u \in DOMAIN pending_callbacks
    /\ (IsSingleFrame /\ ReachesLookup(LastFrame)
          /\ KeyOf(LastFrame) \in DOMAIN last.pre.pending_callbacks)
       => /\ last.pre.invoked[KeyOf(LastFrame)] = 0
          /\ invoked[KeyOf(LastFrame)] = 1
          /\ KeyOf(LastFrame) \notin DOMAIN pending_callbacks
    /\ (IsSingleFrame /\ TagOk(LastFrame)
          /\ (Has(LastFrame, "result") \/ Has(LastFrame, "error"))
          /\ KeyOf(LastFrame) \in DOMAIN last.pre.invoked
          /\ last.pre.invoked[KeyOf(LastFrame)] = 1)
       => /\ promises = last.pre.promises
          /\ pending_callbacks = last.pre.pending_callbacks
          /\ aggregates = last.pre.aggregates
          /\ invoked = last.pre.invoked
          /\ last.out = <<>>
          /\ last.threw = "none"
          /\ Len(last.log) = 1

\* A second response arrived for a call that had already been completed.
C5_Witness ==
    /\ IsSingleFrame
    /\ ReachesLookup(LastFrame)
    /\ KeyOf(LastFrame) \in DOMAIN last.pre.invoked
    /\ last.pre.invoked[KeyOf(LastFrame)] = 1
    /\ last.log = <<"No Registered RPC Call for uid:">>

\* C6: call_method and call_method_with_kwargs invoked with no transport
\* registered return a rejected promise, send no frame and create no pending
\* completion.
C6_NoTransportRejects ==
    (IsCall /\ last.pre.transport = NoTransport)
    => /\ last.out = <<>>
       /\ pending_callbacks = last.pre.pending_callbacks
       /\ last.ret[1] = "promise"
       /\ last.ret[2] \notin DOMAIN last.pre.promises
       /\ promises[last.ret[2]].state = "rejected"
       /\ promises[last.ret[2]].value = ErrorObject("No Transport Initialized")

\* call_method_with_kwargs was invoked before any transport was registered.
C6_Witness ==
    /\ last.op = "call_method_with_kwargs"
    /\ last.pre.transport = NoTransport
    /\ promises[last.ret[2]].state = "rejected"

\* The frame of the only send of the last operation
SentFrame == JSON_parse(last.out[1].data)

\* The parts of C7 that do not depend on the transport
NotifyLeavesState ==
    /\ pending_callbacks = last.pre.pending_callbacks
    /\ promises = last.pre.promises
    /\ id_counter = last.pre.id_counter
    /\ issued = last.pre.issued
    /\ last.ret = <<"none">>

\* C7 (as claimed): in every engine state notify sends one request frame
\* without id, adds no pending completion, leaves the counter and returns no
\* future.
C7_NotifyAlwaysSends ==
    last.op = "notify"
    => /\ Len(last.out) = 1
       /\ Has(SentFrame, "method")
       /\ ~Has(SentFrame, "id")
       /\ NotifyLeavesState

\* C7 (amended): notify sends one request frame without id when a transport
\* is registered and sends nothing when none is; in every engine state it
\* adds no pending completion, leaves the counter and returns no future.
C7_NotifySendsIfBound ==
    last.op = "notify"
    => /\ IF last.pre.transport # NoTransport
          THEN /\ Len(last.out) = 1
               /\ last.out[1].via = last.pre.transport
               /\ TagOk(SentFrame)
               /\ Get(SentFrame, "method") = last.input[1]
               /\ ~Has(SentFrame, "id")
          ELSE last.out = <<>>
       /\ NotifyLeavesState

\* notify ran with a transport registered while a call was pending.
C7_Witness ==
    /\ last.op = "notify"
    /\ last.pre.transport # NoTransport
    /\ DOMAIN pending_callbacks # {}
    /\ Len(last.out) = 1

\* The entries of the array frame a batch sent
SentEntries == SentFrame[2]
IsRequestEntry(e) == Get(e, "type") = Str("request")
\* The uids of the frame's entries that carry an id, in array order
RECURSIVE SentIds(_)
SentIds(n) ==
    IF n = 0 THEN <<>>
    ELSE IF Has(SentEntries[n], "id")
    THEN Append(SentIds(n - 1), Get(SentEntries[n], "id")[2])
    ELSE SentIds(n - 1)

\* C8: with a transport registered, send_batch_request on n entries performs
\* one send whose frame is an array of n request objects in the original
\* order; the entries of type "request", and no others, get a uid and a
\* pending completion.
C8_BatchOneFrame ==
    (last.op = "send_batch_request" /\ last.pre.transport # NoTransport)
    => /\ Len(last.out) = 1
       /\ last.out[1].via = last.pre.transport
       /\ IsArray(SentFrame)
       /\ Len(SentEntries) = Len(last.input)
       /\ \A i \in 1..Len(last.input) :
             /\ TagOk(SentEntries[i])
             /\ Get(SentEntries[i], "method") = Get(last.input[i], "method")
             /\ Has(SentEntries[i], "id") <=> IsRequestEntry(last.input[i])
             /\ IsRequestEntry(last.input[i])
                => /\ KeyOf(SentEntries[i]) \in DOMAIN pending_callbacks
                   /\ KeyOf(SentEntries[i])
                         \notin DOMAIN last.pre.pending_callbacks
                   /\ pending_callbacks[KeyOf(SentEntries[i])]
                         = BatchClosure(Get(last.input[i], "method"), i - 1)
       /\ issued = last.pre.issued \o SentIds(Len(SentEntries))
       /\ (DOMAIN pending_callbacks) \ (DOMAIN last.pre.pending_callbacks)
             = {KeyOf(SentEntries[i]) :
                  i \in {j \in 1..Len(last.input) :
                           IsRequestEntry(last.input[j])}}
       /\ \A u \in DOMAIN last.pre.pending_callbacks :
             /\ u \in DOMAIN pending_callbacks
             /\ pending_callbacks[u] = last.pre.pending_callbacks[u]

\* A batch of a request, a notification and a request was sent as one frame.
C8_Witness ==
    /\ last.op = "send_batch_request"
    /\ last.pre.transport # NoTransport
    /\ Len(last.input) = 3
    /\ IsRequestEntry(last.input[1])
    /\ ~IsRequestEntry(last.input[2])
    /\ IsRequestEntry(last.input[3])
    /\ Len(last.out) = 1
    /\ Len(SentEntries) = 3

\* Every promise of the aggregate is fulfilled by a delivered response
AllAnswered(agg) ==
    \A i \in 1..Len(agg.items) :
       /\ promises[agg.items[i]].state = "fulfilled"
       /\ agg.items[i] \notin DOMAIN pending_callbacks
       /\ invoked[agg.items[i]] = 1

\* C9: the aggregate promise of a batch is fulfilled exactly when a
\* successful response has been delivered for every request entry, with the
\* entries' outcomes in array order; it is not fulfilled while an entry is
\* pending, and an entry is fulfilled only by a frame carrying its id and a
\* non-null result.
C9_AggregateResolves ==
    /\ \A b \in DOMAIN aggregates :
          /\ aggregates[b].state = "fulfilled" <=> AllAnswered(aggregates[b])
          /\ aggregates[b].state = "fulfilled"
             => aggregates[b].value
                   = Arr([i \in 1..Len(aggregates[b].items) |->
                            promises[aggregates[b].items[i]].value])
    /\ IsReceive
       => \A u \in DOMAIN promises :
             (/\ promises[u] # last.pre.promises[u]
              /\ promises[u].state = "fulfilled"
              /\ last.pre.pending_callbacks[u].kind = "batch")
             => \E i \in 1..Len(LastFrames) :
                   /\ KeyOf(LastFrames[i]) = u
                   /\ NonNull(Get(LastFrames[i], "result"))
                   /\ Get(promises[u].value, "result")
                         = Get(LastFrames[i], "result")

\* The aggregate of a batch of two requests was fulfilled by the response to
\* its first entry, which arrived after the response to the second.
C9_Witness ==
    /\ IsSingleFrame
    /\ \E b \in DOMAIN aggregates :
          /\ Len(aggregates[b].items) = 2
          /\ aggregates[b].state = "fulfilled"
          /\ last.pre.aggregates[b].state = "pending"
          /\ KeyOf(LastFrame) = aggregates[b].items[1]
          /\ last.pre.promises[aggregates[b].items[2]].state = "fulfilled"

\* The frame is an error response for a pending entry of a batch
IsBatchError(f) ==
    /\ AnswersPending(f)
    /\ NonNull(Get(f, "error"))
    /\ ~NonNull(Get(f, "result"))
    /\ last.pre.pending_callbacks[KeyOf(f)].kind = "batch"
\* The {method, index, error} of the entry the error frame f answers
EntryError(f) ==
    Obj(<< <<"method", last.pre.pending_callbacks[KeyOf(f)].method>>,
           <<"index", Num(last.pre.pending_callbacks[KeyOf(f)].index)>>,
           <<"error", Get(f, "error")>> >>)
\* The aggregates the uid is an item of
AggregatesOf(u) ==
    {b \in DOMAIN aggregates :
       \E i \in 1..Len(aggregates[b].items) : aggregates[b].items[i] = u}

\* C10 (as claimed): an error response for a batch entry makes the aggregate
\* reject with that entry's {method, index, error}, whatever was delivered
\* for the other entries before it.
C10_EveryErrorRejects ==
    (IsSingleFrame /\ IsBatchError(LastFrame))
    => \A b \in AggregatesOf(KeyOf(LastFrame)) :
          /\ aggregates[b].state = "rejected"
          /\ aggregates[b].value = EntryError(LastFrame)

\* C10 (amended): an error response (non-null error, no non-null result) for
\* a batch entry makes the aggregate reject with that entry's {method, index,
\* error} unless an error response for another entry was delivered before
\* it: the aggregate keeps its first rejection, whatever is delivered later.
C10_FirstErrorRejects ==
    /\ (IsSingleFrame /\ IsBatchError(LastFrame))
       => \A b \in AggregatesOf(KeyOf(LastFrame)) :
             /\ aggregates[b].state = "rejected"
             /\ last.pre.aggregates[b].state # "rejected"
                => aggregates[b].value = EntryError(LastFrame)
    /\ IsReceive
       => \A b \in DOMAIN last.pre.aggregates :
             last.pre.aggregates[b].state = "rejected"
             => aggregates[b] = last.pre.aggregates[b]
    /\ \A b \in DOMAIN aggregates :
          aggregates[b].state = "rejected"
          => \E i \in 1..Len(aggregates[b].items) :
                promises[aggregates[b].items[i]]
                   = Rejected(aggregates[b].value)

\* An error response arrived for an entry of a batch whose aggregate an
\* earlier error response had already rejected.
C10_Witness ==
    /\ IsSingleFrame
    /\ IsBatchError(LastFrame)
    /\ \E b \in AggregatesOf(KeyOf(LastFrame)) :
          /\ last.pre.aggregates[b].state = "rejected"
          /\ aggregates[b].value # EntryError(LastFrame)

\* The promises of the aggregate's items, as they are now
ItemStates(agg) == {promises[agg.items[i]].state : i \in 1..Len(agg.items)}

\* C11 (as claimed): the aggregate promise of a batch is settled only when
\* every request entry of the batch has settled; it is never settled while an
\* entry of the batch is pending.
C11_SettlesAfterAll ==
    \A b \in DOMAIN aggregates :
       aggregates[b].state # "pending"
       => "pending" \notin ItemStates(aggregates[b])

\* C11 (amended): the aggregate is fulfilled only when every request entry has
\* been fulfilled, and it is rejected as soon as one entry is rejected, in the
\* very delivery that rejects that entry, whether or not other entries of the
\* batch are still pending; while it is pending no entry has been rejected.
C11_ResolvesAfterAllRejectsAtFirst ==
    /\ \A b \in DOMAIN aggregates :
          /\ aggregates[b].state = "fulfilled"
             => ItemStates(aggregates[b]) \subseteq {"fulfilled"}
          /\ aggregates[b].state = "rejected"
             <=> "rejected" \in ItemStates(aggregates[b])
          /\ aggregates[b].state = "pending"
             <=> /\ "pending" \in ItemStates(aggregates[b])
                 /\ "rejected" \notin ItemStates(aggregates[b])
    /\ IsReceive
       => \A b \in DOMAIN last.pre.aggregates :
             (/\ last.pre.aggregates[b].state = "pending"
              /\ \E i \in 1..Len(aggregates[b].items) :
                    /\ last.pre.promises[aggregates[b].items[i]].state = "pending"
                    /\ promises[aggregates[b].items[i]].state = "rejected")
             => aggregates[b].state = "rejected"

\* An error response for one entry of a batch of two requests rejected the
\* aggregate while the other entry was still pending.
C11_Witness ==
    /\ IsSingleFrame
    /\ \E b \in DOMAIN aggregates :
          /\ Len(aggregates[b].items) = 2
          /\ last.pre.aggregates[b].state = "pending"
          /\ aggregates[b].state = "rejected"
          /\ "pending" \in ItemStates(aggregates[b])

\* The index the closure of uid was given: read off the closure while the
\* entry is pending and off the outcome once it has settled
IndexOf(u) ==
    IF u \in DOMAIN pending_callbacks
    THEN pending_callbacks[u].index
    ELSE Get(promises[u].value, "index")[2]

\* C12: the closure of a request entry is created with the entry's method and
\* its 0-based position in the array given to send_batch_request (notification
\* entries counted) and is never changed; the outcome an entry settles with,
\* resolved or rejected, carries that method and index; the items of an
\* aggregate are in increasing index order and a fulfilled aggregate lists
\* the entries' outcomes in that order, whatever the order of arrival.
C12_OutcomesByOriginalIndex ==
    /\ (last.op = "send_batch_request" /\ Len(last.out) = 1)
       => \A i \in 1..Len(last.input) :
             IsRequestEntry(last.input[i])
             => pending_callbacks[KeyOf(SentEntries[i])]
                   = [kind |-> "batch",
                      method |-> Get(last.input[i], "method"),
                      index |-> i - 1]
    /\ \A u \in DOMAIN pending_callbacks :
          u \in DOMAIN last.pre.pending_callbacks
          => pending_callbacks[u] = last.pre.pending_callbacks[u]
    /\ IsReceive
       => \A u \in DOMAIN promises :
             (/\ promises[u] # last.pre.promises[u]
              /\ last.pre.pending_callbacks[u].kind = "batch")
             => /\ Get(promises[u].value, "method")
                      = last.pre.pending_callbacks[u].method
                /\ Get(promises[u].value, "index")
                      = Num(last.pre.pending_callbacks[u].index)
                /\ Keys(promises[u].value) \in {{"method", "index", "result"},
                                                {"method", "index", "error"}}
    /\ \A b \in DOMAIN aggregates :
          /\ \A i, j \in 1..Len(aggregates[b].items) :
                i < j => IndexOf(aggregates[b].items[i])
                            < IndexOf(aggregates[b].items[j])
          /\ aggregates[b].state = "fulfilled"
             => /\ Len(aggregates[b].value[2]) = Len(aggregates[b].items)
                /\ \A i \in 1..Len(aggregates[b].items) :
                      /\ aggregates[b].value[2][i]
                            = promises[aggregates[b].items[i]].value
                      /\ Get(aggregates[b].value[2][i], "index")
                            = Num(IndexOf(aggregates[b].items[i]))

\* The aggregate of a batch [request, notification, request] was fulfilled
\* by the response to entry 0 arriving after the response to entry 2, and
\* lists the outcome of index 0 before the outcome of index 2.
C12_Witness ==
    /\ IsSingleFrame
    /\ \E b \in DOMAIN aggregates :
          /\ Len(aggregates[b].items) = 2
          /\ last.pre.aggregates[b].state = "pending"
          /\ aggregates[b].state = "fulfilled"
          /\ KeyOf(LastFrame) = aggregates[b].items[1]
          /\ Get(aggregates[b].value[2][1], "index") = Num(0)
          /\ Get(aggregates[b].value[2][2], "index") = Num(2)

-----------------------------------------------------------------------------
(* What the dispatch properties read off the frame process_received got.   *)

\* A frame _validate_and_dispatch routes to _handle_request
IsRequestFrame(f) ==
    TagOk(f) /\ Has(f, "method") /\ ~Has(f, "result") /\ ~Has(f, "error")
\* The frame names a method that register_method was called for
NamesRegistered(f) ==
    PropertyKey(Get(f, "method")) \in DOMAIN last.pre.methods
\* The callable registered for the frame's method
RegisteredFor(f) == last.pre.methods[PropertyKey(Get(f, "method"))]
\* The frame has no params, or params that are an array or an object
ParamsCallable(f) ==
    ~Has(f, "params") \/ Get(f, "params")[1] \in {"arr", "obj"}
\* What the callable is handed: nothing, the items of the array, the object
HandedOver(f) ==
    IF ~Has(f, "params") THEN <<>>
    ELSE IF Get(f, "params")[1] = "arr" THEN Get(f, "params")[2]
    ELSE <<Get(f, "params")>>
\* The callables that return, and what they return for the frame
Returns(c) == c \in {"echo", "void"}
ReturnValue(c, f) ==
    IF c = "echo" /\ Len(HandedOver(f)) > 0 THEN HandedOver(f)[1]
    ELSE Undefined
\* The frames sent by the last operation, decoded
SentFrames == [i \in 1..Len(last.out) |-> JSON_parse(last.out[i].data)]
\* Nothing the engine keeps was changed by the last operation
EngineUnchanged ==
    /\ id_counter = last.pre.id_counter
    /\ methods = last.pre.methods
    /\ pending_callbacks = last.pre.pending_callbacks
    /\ transport = last.pre.transport
    /\ promises = last.pre.promises
    /\ aggregates = last.pre.aggregates
    /\ invoked = last.pre.invoked

\* C13: with a transport registered, an inbound request that carries an id
\* and names a registered method that is called and returns normally makes
\* process_received call that method once and send exactly one frame, on the
\* registered transport: a response with the request's id, without an error
\* field, whose result is the value the method returned (a method that
\* returns nothing leaves the frame without a result field).
C13_RequestAnswered ==
    (/\ IsSingleFrame
     /\ IsRequestFrame(LastFrame)
     /\ Has(LastFrame, "id")
     /\ NamesRegistered(LastFrame)
     /\ ParamsCallable(LastFrame)
     /\ Returns(RegisteredFor(LastFrame))
     /\ last.pre.transport # NoTransport)
    => /\ last.threw = "none"
       /\ last.calls = << <<RegisteredFor(LastFrame), HandedOver(LastFrame)>> >>
       /\ Len(last.out) = 1
       /\ last.out[1].via = last.pre.transport
       /\ TagOk(SentFrame)
       /\ Get(SentFrame, "id") = Get(LastFrame, "id")
       /\ ~Has(SentFrame, "error")
       /\ Get(SentFrame, "result")
             = ReturnValue(RegisteredFor(LastFrame), LastFrame)
       /\ ReturnValue(RegisteredFor(LastFrame), LastFrame) # Undefined
          => Keys(SentFrame) = {"jsonrpc", "result", "id"}

\* echo is registered and the request {"jsonrpc":"2.0","method":"echo",
\* "params":{"v":5},"id":"7"} was answered with {"jsonrpc":"2.0",
\* "result":{"v":5},"id":"7"}.
C13_Witness ==
    /\ IsSingleFrame
    /\ LastFrame = Frame("2.0", Str("echo"), Obj(<< <<"v", Num(5)>> >>),
                         Undefined, Undefined, Str("7"))
    /\ NamesRegistered(LastFrame)
    /\ RegisteredFor(LastFrame) = "echo"
    /\ Len(last.out) = 1
    /\ SentFrame = Obj(<< <<"jsonrpc", Str("2.0")>>,
                          <<"result", Obj(<< <<"v", Num(5)>> >>)>>,
                          <<"id", Str("7")>> >>)

\* The error object of a sent frame
ErrorOf(f) == Get(f, "error")
\* The message the catch block of _handle_request is described to send
ThrownMessage(c) == IF c = "boom" THEN "boom" ELSE "Server Error"

\* C14: with a transport registered, an exception thrown by the method an
\* inbound request is dispatched to never leaves process_received; exactly
\* one frame is sent, an error frame with code -31000 and the exception's
\* message, or "Server Error" when it has none or an empty one, and no frame
\* with a result.
C14_ExceptionBecomesErrorFrame ==
    (/\ IsSingleFrame
     /\ IsRequestFrame(LastFrame)
     /\ NamesRegistered(LastFrame)
     /\ ParamsCallable(LastFrame)
     /\ ~Returns(RegisteredFor(LastFrame))
     /\ last.pre.transport # NoTransport)
    => /\ last.threw = "none"
       /\ Len(last.out) = 1
       /\ ~Has(SentFrame, "result")
       /\ Get(ErrorOf(SentFrame), "code") = Num(-31000)
       /\ Get(ErrorOf(SentFrame), "message")
             = Str(ThrownMessage(RegisteredFor(LastFrame)))

\* C15: an inbound request for a registered method whose params field is a
\* number, a string, a boolean or null never calls the registered callable
\* and raises nothing; with a transport registered it is answered by exactly
\* one frame, an error with code -32602 and message "Invalid Parameters",
\* without a result field (with no transport nothing can be sent).
C15_InvalidParams ==
    (/\ IsSingleFrame
     /\ IsRequestFrame(LastFrame)
     /\ NamesRegistered(LastFrame)
     /\ ~ParamsCallable(LastFrame))
    => /\ last.calls = <<>>
       /\ last.threw = "none"
       /\ EngineUnchanged
       /\ Len(last.out) = IF last.pre.transport # NoTransport THEN 1 ELSE 0
       /\ \A i \in 1..Len(last.out) :
             /\ last.out[i].via = last.pre.transport
             /\ TagOk(SentFrames[i])
             /\ ~Has(SentFrames[i], "result")
             /\ ErrorOf(SentFrames[i])
                   = Obj(<< <<"message", Str("Invalid Parameters")>>,
                            <<"code", Num(-32602)>> >>)

\* echo is registered and a request with params 3 and id "7" was answered
\* with the -32602 error frame for id "7".
C15_Witness ==
    /\ IsSingleFrame
    /\ LastFrame = Frame("2.0", Str("echo"), Num(3), Undefined, Undefined,
                         Str("7"))
    /\ NamesRegistered(LastFrame)
    /\ RegisteredFor(LastFrame) = "echo"
    /\ last.calls = <<>>
    /\ Len(last.out) = 1
    /\ Get(ErrorOf(SentFrame), "code") = Num(-32602)
    /\ Get(SentFrame, "id") = Str("7")

\* C16: a frame with an error of code -32602 or -31000 is sent only in
\* answer to an inbound frame that carries an id; an inbound notification
\* whose dispatch fails makes the engine send nothing.
C16_ErrorOnlyWithId ==
    IsSingleFrame
    => /\ \A i \in 1..Len(last.out) :
             Get(ErrorOf(SentFrames[i]), "code") \in {Num(-32602), Num(-31000)}
             => Has(LastFrame, "id")
       /\ (IsRequestFrame(LastFrame) /\ ~Has(LastFrame, "id")
             /\ NamesRegistered(LastFrame)
             /\ (~ParamsCallable(LastFrame)
                    \/ ~Returns(RegisteredFor(LastFrame))))
          => last.out = <<>>

\* C17: an inbound request or notification for a method name that
\* register_method was never called with sends no frame, calls no function,
\* raises nothing and changes nothing in the engine.
C17_UnregisteredIgnored ==
    (/\ IsSingleFrame
     /\ IsRequestFrame(LastFrame)
     /\ ~NamesRegistered(LastFrame))
    => /\ last.out = <<>>
       /\ last.calls = <<>>
       /\ last.threw = "none"
       /\ EngineUnchanged

\* A frame _validate_and_dispatch routes to _handle_response
IsResponseFrame(f) ==
    TagOk(f) /\ (Has(f, "result") \/ Has(f, "error"))

\* C18: a frame without an error field is sent only in answer to an inbound
\* request that carries an id; an inbound notification whose registered
\* method is called and returns normally sends nothing, and an inbound
\* response frame (one with a result or an error key, even next to a method
\* key) sends nothing and calls no registered method.
C18_ResultOnlyForRequests ==
    IsSingleFrame
    => /\ \A i \in 1..Len(last.out) :
             ~Has(SentFrames[i], "error")
             => IsRequestFrame(LastFrame) /\ Has(LastFrame, "id")
       /\ (/\ IsRequestFrame(LastFrame)
           /\ ~Has(LastFrame, "id")
           /\ NamesRegistered(LastFrame)
           /\ ParamsCallable(LastFrame)
           /\ Returns(RegisteredFor(LastFrame)))
          => /\ last.out = <<>>
             /\ last.calls
                   = << <<RegisteredFor(LastFrame), HandedOver(LastFrame)>> >>
       /\ IsResponseFrame(LastFrame)
          => /\ last.out = <<>>
             /\ \A i \in 1..Len(last.calls) :
                   last.calls[i][1] \notin Callables

\* With a transport registered, a notification for the registered echo was
\* dispatched: echo was called and nothing was sent.
C18_Witness ==
    /\ IsSingleFrame
    /\ LastFrame = Frame("2.0", Str("echo"), Obj(<< <<"v", Num(5)>> >>),
                         Undefined, Undefined, Undefined)
    /\ last.pre.transport # NoTransport
    /\ last.calls = << <<"echo", <<Obj(<< <<"v", Num(5)>> >>)>> >> >>
    /\ last.out = <<>>

\* The response frame reaches a lookup in the pending map: a non-null result
\* with a non-null id, or else a non-null error
LooksUpPending(f) ==
    \/ NonNull(Get(f, "result")) /\ NonNull(Get(f, "id"))
    \/ NonNull(Get(f, "error"))

\* C19: a response or error frame whose id names no pending completion
\* raises no exception, sends nothing, runs no completion callback and
\* leaves the id counter, the pending map, the dispatch table and every
\* promise unchanged.
C19_OrphanDropped ==
    (/\ IsSingleFrame
     /\ IsResponseFrame(LastFrame)
     /\ LooksUpPending(LastFrame)
     /\ KeyOf(LastFrame) \notin DOMAIN last.pre.pending_callbacks)
    => /\ last.threw = "none"
       /\ last.out = <<>>
       /\ EngineUnchanged

\* The decoded value is not a frame the engine handles: its tag is not
\* "2.0", or it has none of the keys result, error and method
IsInvalidData(f) ==
    \/ ~TagOk(f)
    \/ ~(Has(f, "result") \/ Has(f, "error") \/ Has(f, "method"))

\* C20: a decoded value whose tag is not "2.0" or that has none of the keys
\* result, error and method (an object, null, a number, a string, a boolean)
\* is dropped: no exception leaves process_received, nothing is sent, no
\* function is called and no pending completion is settled or removed, also
\* when its id is that of a pending call.
C20_InvalidDropped ==
    (IsSingleFrame /\ IsInvalidData(LastFrame))
    => /\ last.threw = "none"
       /\ last.out = <<>>
       /\ last.calls = <<>>
       /\ EngineUnchanged

-----------------------------------------------------------------------------
\* C21: process_received on text that is not well-formed JSON raises nothing
\* to its caller (the transport's onmessage), sends nothing and leaves the
\* id counter, the pending map, the dispatch table and the transport as they
\* were.
C21_MalformedDropped ==
    (IsReceive /\ JSON_parse_throws(last.input))
    => /\ last.threw = "none"
       /\ last.out = <<>>
       /\ EngineUnchanged

\* C22: every element of an inbound array frame is dispatched, whatever the
\* elements before it were: a response for a pending call that stands second
\* in the array completes that call also when the first element is invalid,
\* orphaned, names an unregistered method, has bad params or makes its method
\* throw.
C22_ElementsIndependent ==
    (/\ IsReceive
     /\ ~IsSingleFrame
     /\ Len(LastFrames) = 2
     /\ AnswersPending(LastFrames[2])
     /\ NonNull(Get(LastFrames[2], "result")))
    => /\ KeyOf(LastFrames[2]) \notin DOMAIN pending_callbacks
       /\ promises[KeyOf(LastFrames[2])].state = "fulfilled"

\* The operations that build and send requests
IsOutboundOp ==
    last.op \in {"call_method", "call_method_with_kwargs", "notify",
                 "send_batch_request"}
\* The request objects on the wire after the last operation, in order
RequestsSent == IF IsArray(SentFrame) THEN SentFrame[2] ELSE <<SentFrame>>
\* Request i of the last operation is a notification
IsNotificationSent(i) ==
    \/ last.op = "notify"
    \/ last.op = "send_batch_request" /\ ~IsRequestEntry(last.input[i])
\* Parameters were supplied for request i of the last operation
ParamsSupplied(i) ==
    IF last.op = "send_batch_request" THEN Has(last.input[i], "params")
    ELSE last.input[2] # JNull \/ Len(last.input[3]) > 0

\* C24: every request frame that call_method, call_method_with_kwargs,
\* notify and send_batch_request send has the tag "2.0", has an id field
\* exactly when it is not a notification, has no params field when no
\* parameters were supplied, and never has params that is null, an empty
\* object or an empty array.
C24_NoEmptyParams ==
    (IsOutboundOp /\ Len(last.out) = 1)
    => \A i \in 1..Len(RequestsSent) :
          /\ TagOk(RequestsSent[i])
          /\ Has(RequestsSent[i], "id") <=> ~IsNotificationSent(i)
          /\ ~ParamsSupplied(i) => ~Has(RequestsSent[i], "params")
          /\ Has(RequestsSent[i], "params")
             => Get(RequestsSent[i], "params")
                   \notin {JNull, Obj(<<>>), Arr(<<>>)}

\* No undefined occurs in the value: JSON can carry it
RECURSIVE IsJsonValue(_)
IsJsonValue(v) ==
    CASE v = Undefined -> FALSE
      [] v[1] = "obj" -> \A i \in 1..Len(v[2]) : IsJsonValue(v[2][i][2])
      [] v[1] = "arr" -> \A i \in 1..Len(v[2]) : IsJsonValue(v[2][i])
      [] OTHER -> TRUE
\* The keys of the object whose value is not undefined
DefinedKeys(o) == {k \in Keys(o) : Get(o, k) # Undefined}
\* The request objects the last operation built, before encoding
BuiltRequests ==
    IF last.op = "send_batch_request"
    THEN BatchFrom([id_counter |-> last.pre.id_counter,
                    pending_callbacks |-> last.pre.pending_callbacks,
                    promises |-> last.pre.promises,
                    invoked |-> last.pre.invoked,
                    issued |-> last.pre.issued,
                    items |-> <<>>, batch_request |-> <<>>,
                    threw |-> "none"], last.input, 0).batch_request
    ELSE IF last.op = "notify"
    THEN <<_build_request(last.input[1], JNull, JNull, last.input[3])>>
    ELSE <<_build_request(last.input[1], Str(last.ret[2]), last.input[2],
                          last.input[3])>>
\* The same field of the request built and of the request decoded
SameField(r, d, k) == (Has(d, k) <=> Has(r, k)) /\ Get(d, k) = Get(r, k)

\* C25 (as claimed): decoding the frame a request was encoded to gives back
\* the method, the id and the params of the request as it was built, each
\* field absent after decoding exactly when it was absent before encoding.
C25_RoundTripExact ==
    (IsOutboundOp /\ Len(last.out) = 1)
    => /\ Len(RequestsSent) = Len(BuiltRequests)
       /\ \A i \in 1..Len(RequestsSent) :
             /\ SameField(BuiltRequests[i], RequestsSent[i], "method")
             /\ SameField(BuiltRequests[i], RequestsSent[i], "id")
             /\ SameField(BuiltRequests[i], RequestsSent[i], "params")

\* C25 (amended): decoding gives back the method and the id exactly and the
\* params field is present after decoding exactly when it was present
\* before; the params are given back exactly when no undefined occurs in
\* them, and otherwise without the properties whose value is undefined.
C25_RoundTripJsonValues ==
    (IsOutboundOp /\ Len(last.out) = 1)
    => /\ Len(RequestsSent) = Len(BuiltRequests)
       /\ \A i \in 1..Len(RequestsSent) :
             /\ SameField(BuiltRequests[i], RequestsSent[i], "method")
             /\ SameField(BuiltRequests[i], RequestsSent[i], "id")
             /\ Has(RequestsSent[i], "params")
                   <=> Has(BuiltRequests[i], "params")
             /\ IsJsonValue(Get(RequestsSent[i], "params"))
                   \/ ~Has(RequestsSent[i], "params")
             /\ IsJsonValue(Get(BuiltRequests[i], "params"))
                => Get(RequestsSent[i], "params")
                      = Get(BuiltRequests[i], "params")
             /\ (/\ Has(BuiltRequests[i], "params")
                 /\ ~IsJsonValue(Get(BuiltRequests[i], "params")))
                => /\ Keys(Get(RequestsSent[i], "params"))
                         = DefinedKeys(Get(BuiltRequests[i], "params"))
                   /\ \A k \in Keys(Get(RequestsSent[i], "params")) :
                         Get(Get(RequestsSent[i], "params"), k)
                            = Get(Get(BuiltRequests[i], "params"), k)

\* call_method_with_kwargs was given {root: undefined}: the request built
\* has the params {root: undefined}, the frame decoded has the params {}.
C25_Witness ==
    /\ last.op = "call_method_with_kwargs"
    /\ Len(last.out) = 1
    /\ Get(BuiltRequests[1], "params") = Obj(<< <<"root", Undefined>> >>)
    /\ Get(RequestsSent[1], "params") = Obj(<<>>)
    /\ Get(RequestsSent[1], "id") = Get(BuiltRequests[1], "id")

\* The text the last operation had to send: its request, or the array of
\* the requests of its batch
FrameDue ==
    IF last.op = "send_batch_request"
    THEN JSON_stringify(Arr(BuiltRequests))
    ELSE JSON_stringify(BuiltRequests[1])

\* C26: with a transport registered, every invocation of call_method,
\* call_method_with_kwargs, notify and send_batch_request hands exactly one
\* frame to the transport before it returns, the frame of that very
\* invocation, and no frame is sent by the engine at any other time than in
\* answer to an inbound request; the engine runs one invocation at a time,
\* so the frames reach the transport in the order of the invocations.
C26_SentInInvocationOrder ==
    /\ (IsOutboundOp /\ last.pre.transport # NoTransport)
       => /\ Len(last.out) = 1
          /\ last.out[1] = Send(last.pre.transport, FrameDue)
    /\ ~(IsOutboundOp \/ IsReceive) => last.out = <<>>
    /\ IsReceive
       => \A i \in 1..Len(last.out) :
             Has(SentFrames[i], "result") \/ Has(SentFrames[i], "error")

\* A notify invoked after a call that is still pending: its frame was sent
\* at once, behind the frame of the call.
C26_Witness ==
    /\ last.op = "notify"
    /\ last.pre.issued = <<"0">>
    /\ "0" \in DOMAIN last.pre.pending_callbacks
    /\ Len(last.out) = 1
    /\ ~Has(SentFrame, "id")

\* C23: register_transport(t) makes t the transport of the engine, no other
\* operation changes the transport, and every frame the engine sends
\* (request, notification, batch, response to an inbound request) is handed
\* to the transport registered last and to no other.
C23_SendsThroughLastRegistered ==
    /\ last.op = "register_transport" => transport = last.input
    /\ last.op \notin {"register_transport", "idle"}
       => transport = last.pre.transport
    /\ \A i \in 1..Len(last.out) : last.out[i].via = transport

\* After T1 and then T2 were registered, the response to an inbound request
\* was sent through T2.
C23_Witness ==
    /\ IsReceive
    /\ onmessage = {"T1", "T2"}
    /\ transport = "T2"
    /\ Len(last.out) = 1
    /\ last.out[1].via = "T2"
    /\ Has(SentFrame, "result")

\* C27: register_method(name, f) binds name to f, replacing what name was
\* bound to, and leaves every other name bound as it was; nothing else
\* changes the table; an inbound request for a registered name calls the
\* callable the table holds for it, once, and no other.
C27_LastRegistrationWins ==
    /\ last.op = "register_method"
       => /\ DOMAIN methods = DOMAIN last.pre.methods \cup {last.input[1]}
          /\ methods[last.input[1]] = last.input[2]
          /\ \A n \in DOMAIN last.pre.methods \ {last.input[1]} :
                methods[n] = last.pre.methods[n]
    /\ last.op \notin {"register_method", "idle"}
       => methods = last.pre.methods
    /\ (/\ IsSingleFrame
        /\ IsRequestFrame(LastFrame)
        /\ NamesRegistered(LastFrame)
        /\ ParamsCallable(LastFrame))
       => last.calls
             = << <<methods[PropertyKey(Get(LastFrame, "method"))],
                    HandedOver(LastFrame)>> >>

\* register_method replaced the callable of a name that was registered with
\* another callable, while the other name stayed registered.
C27_Witness ==
    /\ last.op = "register_method"
    /\ DOMAIN last.pre.methods = {"echo", "ping"}
    /\ last.pre.methods[last.input[1]] # last.input[2]
    /\ methods[last.input[1]] = last.input[2]

\* Some frame of the text just received is a response or error frame that
\* carries the id of the pending completion uid
AnsweredByFrame(uid) ==
    /\ IsReceive
    /\ \E i \in 1..Len(LastFrames) :
          /\ IsObject(LastFrames[i])
          /\ IsResponseFrame(LastFrames[i])
          /\ LooksUpPending(LastFrames[i])
          /\ KeyOf(LastFrames[i]) = uid

\* C30: a pending completion is removed, replaced or settled only by
\* process_received of a response or error frame that carries its id; after
\* every other operation (call, notify, batch, registration, inbound request
\* or invalid frame, socket close and reopen) the entry is still in the
\* pending map and its promise is still pending.
C30_PendingUntilAnswered ==
    /\ \A uid \in DOMAIN last.pre.pending_callbacks :
          (\/ uid \notin DOMAIN pending_callbacks
           \/ pending_callbacks[uid] # last.pre.pending_callbacks[uid]
           \/ promises[uid] # last.pre.promises[uid])
          => AnsweredByFrame(uid)
    /\ \A uid \in DOMAIN pending_callbacks : promises[uid] = Pending

\* The socket closed while call "0" was unanswered, and the call is still
\* in the pending map with its promise pending.
C30_Witness ==
    /\ last.op = "ws_onclose"
    /\ "0" \in DOMAIN last.pre.pending_callbacks
    /\ "0" \in DOMAIN pending_callbacks
    /\ promises["0"] = Pending

\* C28: an operation or an inbound frame on one instance leaves the id
\* counter, the pending map, the dispatch table, the transport and the
\* promises of the other instance as they were; in particular a response
\* settles the call of its id in the instance that received it and not the
\* call with the same id in the other instance.
C28_InstancesIndependent ==
    last.op # "idle"
    => /\ other.id_counter = last.other.id_counter
       /\ other.pending_callbacks = last.other.pending_callbacks
       /\ other.methods = last.other.methods
       /\ other.transport = last.other.transport
       /\ other.promises = last.other.promises
       /\ other.aggregates = last.other.aggregates
       /\ other.invoked = last.other.invoked
       /\ other.issued = last.other.issued

\* Both instances had a call with id "0" pending; this one received the
\* response for "0" and its call is fulfilled, the other's is still pending.
C28_Witness ==
    /\ IsReceive
    /\ "0" \in DOMAIN last.pre.pending_callbacks
    /\ "0" \notin DOMAIN pending_callbacks
    /\ promises["0"].state = "fulfilled"
    /\ "0" \in DOMAIN other.pending_callbacks
    /\ other.promises["0"] = Pending

\* The last operation sent its frame through a transport that answers
\* during send
SentThroughLoopback ==
    /\ IsOutboundOp
    /\ last.pre.transport \in LoopbackTransports
    /\ Len(last.out) > 0

\* C29: the pending completion of an id exists when the frame carrying the
\* id is handed to send: when the transport answers during send, the
\* response of every request that call_method, call_method_with_kwargs and
\* send_batch_request sent has found its entry, so after the operation the
\* promise of that request is settled, its entry is consumed and no response
\* was logged as having no registered call.
C29_PendingFromSend ==
    SentThroughLoopback
    => /\ \A i \in 1..Len(RequestsSent) :
             Has(RequestsSent[i], "id")
             => /\ KeyOf(RequestsSent[i]) \notin DOMAIN pending_callbacks
                /\ promises[KeyOf(RequestsSent[i])].state = "fulfilled"
       /\ \A i \in 1..Len(last.log) :
             last.log[i] # "No Registered RPC Call for uid:"

\* The part of C29 that is about send_batch_request
BatchPendingFromSend ==
    last.op = "send_batch_request" => C29_PendingFromSend
\* A batch with a request went through the answering transport
BatchPendingFromSendReached ==
    /\ last.op = "send_batch_request"
    /\ SentThroughLoopback
    /\ \E i \in 1..Len(RequestsSent) : Has(RequestsSent[i], "id")

\* C31: a decoded frame that has a result or an error key goes to the pending
\* map only: no registered method is called and nothing is sent, also when
\* the frame has a method key; a frame that has a method key and neither a
\* result nor an error key goes to the dispatch table only: the pending map,
\* the promises and the closures run are as before.
C31_ClassifiedByKeys ==
    (IsSingleFrame /\ IsObject(LastFrame))
    => /\ (Has(LastFrame, "result") \/ Has(LastFrame, "error"))
          => /\ \A i \in 1..Len(last.calls) :
                   last.calls[i][1] \notin Callables
             /\ last.out = <<>>
       /\ (/\ Has(LastFrame, "method")
           /\ ~Has(LastFrame, "result")
           /\ ~Has(LastFrame, "error"))
          => /\ pending_callbacks = last.pre.pending_callbacks
             /\ promises = last.pre.promises
             /\ invoked = last.pre.invoked
             /\ aggregates = last.pre.aggregates

\* A frame naming the registered method and carrying a result for the
\* pending call "0" settled that call and called no method.
C31_Witness ==
    /\ IsSingleFrame
    /\ IsObject(LastFrame)
    /\ Get(LastFrame, "method") = Str("echo")
    /\ Has(LastFrame, "result")
    /\ "echo" \in DOMAIN last.pre.methods
    /\ "0" \in DOMAIN last.pre.pending_callbacks
    /\ promises["0"].state = "fulfilled"
    /\ last.calls = <<>>

\* The text just received is an array whose items are all requests that carry
\* an id and name a registered method, and a transport is registered
IsRequestBatch ==
    /\ IsReceive
    /\ ~JSON_parse_throws(last.input)
    /\ IsArray(JSON_parse(last.input))
    /\ Len(LastFrames) > 1
    /\ \A i \in 1..Len(LastFrames) :
          /\ IsObject(LastFrames[i])
          /\ IsRequestFrame(LastFrames[i])
          /\ Has(LastFrames[i], "id")
          /\ NamesRegistered(LastFrames[i])
    /\ last.pre.transport # NoTransport
\* One frame was sent per item, each on its own, with the ids in item order
AnsweredInItemOrder ==
    /\ Len(last.out) = Len(LastFrames)
    /\ \A i \in 1..Len(last.out) :
          /\ ~IsArray(JSON_parse(last.out[i].data))
          /\ Get(JSON_parse(last.out[i].data), "id") = Get(LastFrames[i], "id")

\* C32: for an inbound array frame whose items are requests with ids for
\* registered methods, process_received sends one response frame per item,
\* each as a frame of its own, in the order of the items in the array.
C32_BatchAnsweredInOrder ==
    IsRequestBatch => AnsweredInItemOrder

\* The part of C32 for methods that return or throw an Error object
AnsweredInOrderUnlessPrimitiveThrown ==
    (IsRequestBatch /\ last.threw = "none") => AnsweredInItemOrder
\* Two requests were answered by two frames
AnsweredInOrderReached ==
    IsRequestBatch /\ last.threw = "none" /\ Len(last.out) = 2

\* The entries of the batch just sent that are of type "request"
RequestEntriesOf(requests) ==
    {i \in 1..Len(requests) : IsRequestEntry(requests[i])}
\* send_batch_request ran to its end with a transport registered
BatchWasSent ==
    /\ last.op = "send_batch_request"
    /\ last.pre.transport # NoTransport
    /\ last.threw = "none"

\* C33: with a transport registered, a batch without an entry of type
\* "request" (empty, or notifications only) sends its one array frame, with
\* one request object per entry, and returns a promise that is already
\* fulfilled with an empty array, leaving the pending map as it was; the
\* aggregate of a mixed batch waits for as many promises as the batch has
\* request entries, and its array of outcomes has that many elements.
C33_NotificationsOutsideAggregate ==
    /\ BatchWasSent
       => /\ Len(last.out) = 1
          /\ IsArray(SentFrame)
          /\ Len(SentEntries) = Len(last.input)
          /\ RequestEntriesOf(last.input) = {}
             => /\ last.ret = <<"settled", [items |-> <<>>,
                                            state |-> "fulfilled",
                                            value |-> Arr(<<>>)]>>
                /\ pending_callbacks = last.pre.pending_callbacks
                /\ aggregates = last.pre.aggregates
          /\ RequestEntriesOf(last.input) # {}
             => /\ last.ret = <<"aggregate", Len(aggregates)>>
                /\ Len(aggregates[Len(aggregates)].items)
                      = Cardinality(RequestEntriesOf(last.input))
    /\ \A a \in 1..Len(aggregates) :
          aggregates[a].state = "fulfilled"
          => /\ Len(aggregates[a].items) > 0
             /\ Len(aggregates[a].value[2]) = Len(aggregates[a].items)

\* A batch of notifications only was sent in one frame and its promise is
\* fulfilled with the empty array.
C33_Witness ==
    /\ BatchWasSent
    /\ Len(last.input) > 0
    /\ RequestEntriesOf(last.input) = {}
    /\ Len(last.out) = 1
    /\ last.ret[1] = "settled"
    /\ last.ret[2].state = "fulfilled"

\* C34: send_batch_request without a registered transport returns a promise
\* rejected with Error("No Transport Initialized"), sends nothing, draws no
\* uid and stores no completion or promise for any entry of the batch.
C34_BatchWithoutTransport ==
    (last.op = "send_batch_request" /\ last.pre.transport = NoTransport)
    => /\ last.ret = <<"settled",
                       Rejected(ErrorObject("No Transport Initialized"))>>
       /\ last.threw = "none"
       /\ last.out = <<>>
       /\ id_counter = last.pre.id_counter
       /\ issued = last.pre.issued
       /\ pending_callbacks = last.pre.pending_callbacks
       /\ promises = last.pre.promises
       /\ aggregates = last.pre.aggregates

\* A batch with a request entry was given to send_batch_request while no
\* transport was registered.
C34_Witness ==
    /\ last.op = "send_batch_request"
    /\ last.pre.transport = NoTransport
    /\ RequestEntriesOf(last.input) # {}
    /\ last.ret[1] = "settled"
    /\ last.ret[2].state = "rejected"

\* C35: a call_method or call_method_with_kwargs that is rejected because no
\* transport is registered leaves the id counter, the pending map, the
\* dispatch table and the transport as they were, so that the next call
\* draws the uid it would have drawn without the rejected call.
C35_RejectedCallLeavesState ==
    (IsCall /\ last.pre.transport = NoTransport)
    => /\ last.ret[1] = "promise"
       /\ promises[last.ret[2]]
             = Rejected(ErrorObject("No Transport Initialized"))
       /\ last.out = <<>>
       /\ pending_callbacks = last.pre.pending_callbacks
       /\ methods = last.pre.methods
       /\ transport = last.pre.transport
       /\ id_counter = last.pre.id_counter

\* The parts of C35 other than the id counter
RejectedCallLeavesRest ==
    (IsCall /\ last.pre.transport = NoTransport)
    => /\ promises[last.ret[2]]
             = Rejected(ErrorObject("No Transport Initialized"))
       /\ last.out = <<>>
       /\ pending_callbacks = last.pre.pending_callbacks
       /\ methods = last.pre.methods
       /\ transport = last.pre.transport
       /\ id_counter = last.pre.id_counter + 1

\* The text just received is one request that carries an id
IsRequestWithId ==
    /\ IsSingleFrame
    /\ IsObject(LastFrame)
    /\ IsRequestFrame(LastFrame)
    /\ Has(LastFrame, "id")
\* Frame i sent by the last operation has exactly one of result and error
OneOfResultAndError(i) ==
    Has(JSON_parse(last.out[i].data), "result")
       # Has(JSON_parse(last.out[i].data), "error")

\* C36: every frame sent in answer to an inbound request that carries an id
\* has, as decoded by its receiver, exactly one of the fields result and
\* error, whatever the registered method returned, nothing included.
C36_ResultOrError ==
    IsRequestWithId
    => \A i \in 1..Len(last.out) : OneOfResultAndError(i)

\* The part of C36 for methods that return a value or throw
ResultOrErrorUnlessNothingReturned ==
    (/\ IsRequestWithId
     /\ \A i \in 1..Len(last.calls) :
           Invoke(last.calls[i][1], last.calls[i][2]).threw
           \/ Invoke(last.calls[i][1], last.calls[i][2]).value # Undefined)
    => \A i \in 1..Len(last.out) : OneOfResultAndError(i)
\* A request with an id was answered with a result
ResultOrErrorReached ==
    /\ IsRequestWithId
    /\ Len(last.out) = 1
    /\ Has(JSON_parse(last.out[1].data), "result")

\* The frame just processed came from a transport that is no longer the
\* registered one
FromReplacedTransport ==
    /\ IsReceive
    /\ last.from # "caller"
    /\ last.from # last.pre.transport

\* C37: once register_transport has replaced a transport, a frame that the
\* replaced transport hands to its onmessage is not processed: it settles
\* no promise, removes no pending completion, calls no registered method
\* and sends nothing on the new transport.
C37_ReplacedTransportSilent ==
    FromReplacedTransport
    => /\ promises = last.pre.promises
       /\ pending_callbacks = last.pre.pending_callbacks
       /\ last.calls = <<>>
       /\ last.out = <<>>

\* The part of C37 that holds: what the engine sends goes to the transport
\* registered last, whoever delivered the frame
RepliesGoToRegistered ==
    IsReceive => \A i \in 1..Len(last.out) : last.out[i].via = transport

\* C38: with a KlippyWebsocket registered as transport, a call_method or
\* call_method_with_kwargs either has its request frame written to the
\* socket or returns a promise that is rejected.  (The socket is, after the
\* call, as it was when the call handed its frame to send.)
C38_WrittenOrRejected ==
    (IsCall /\ last.pre.transport # NoTransport)
    => \/ /\ Len(last.out) = 1
          /\ KlippyWebsocket_send(socket, last.out[1].data)
                = <<last.out[1].data>>
       \/ promises[last.ret[2]].state = "rejected"

\* The part of C38 for an open socket
WrittenWhenConnected ==
    (IsCall /\ last.pre.transport # NoTransport /\ socket.connected)
    => /\ Len(last.out) = 1
       /\ KlippyWebsocket_send(socket, last.out[1].data)
             = <<last.out[1].data>>
\* A call was made while the socket was open
WrittenWhenConnectedReached ==
    IsCall /\ last.pre.transport # NoTransport /\ socket.connected

\* A response or error frame for uid was delivered by the last operation:
\* in a task of its own, or by the transport while it was sending
DeliveredNow(uid) ==
    \/ /\ IsReceive
       /\ \E i \in 1..Len(LastFrames) :
             /\ IsObject(LastFrames[i])
             /\ TagOk(LastFrames[i])
             /\ LooksUpPending(LastFrames[i])
             /\ KeyOf(LastFrames[i]) = uid
    \/ /\ SentThroughLoopback
       /\ \E i \in 1..Len(RequestsSent) :
             /\ Has(RequestsSent[i], "id")
             /\ KeyOf(RequestsSent[i]) = uid

\* C39: once the peer has delivered the one response or error frame for an
\* issued uid, the promise returned for that uid is settled and the pending
\* map has no entry for it (the peer delivers one frame per uid, so what a
\* delivery leaves pending stays pending); with every uid answered, every
\* promise is settled and the pending map is empty.
C39_DeliveredThenSettled ==
    \A uid \in DOMAIN promises :
       DeliveredNow(uid)
       => /\ uid \notin DOMAIN pending_callbacks
          /\ promises[uid].state # "pending"

\* Nothing is pending: no completion, no promise of a call or batch entry,
\* no aggregate
NothingPending ==
    /\ DOMAIN pending_callbacks = {}
    /\ \A uid \in DOMAIN promises : promises[uid].state # "pending"
    /\ \A a \in 1..Len(aggregates) : aggregates[a].state # "pending"
\* The part of C39 for a peer that answers in later tasks: from some point
\* on nothing is pending
AnsweredEventuallySettled == <>[]NothingPending
\* The pending map is emptied also where the aggregate of the batch was
\* rejected by the first error
RejectedBatchEmptied ==
    /\ IsReceive
    /\ last.pre.aggregates # <<>>
    /\ last.pre.aggregates[1].state = "rejected"
    /\ DOMAIN last.pre.pending_callbacks # {}
    /\ DOMAIN pending_callbacks = {}

\* The last operation created a primary socket
CreatedSocket ==
    /\ last.op \in {"reconnect_timer", "oneshot_token"}
    /\ last.ret = <<"WebSocket">>

\* C40: once close() has been called on a KlippyWebsocket (this.reconnect is
\* false from then on), no primary socket is created for it, whatever was
\* in flight when close() was called: a token fetch, a reconnect timer, the
\* close or error event of the socket.
C40_NoSocketAfterClose ==
    CreatedSocket => socket.reconnect

\* The part of C40 for the reconnect timer: its callback looks at
\* this.reconnect again before it connects
TimerHonoursClose ==
    last.op = "reconnect_timer" /\ ~socket.reconnect
    => /\ last.ret = <<"none">>
       /\ ~socket.fetching
\* The timer set by ws.onclose fired after close() had been called
TimerHonoursCloseReached ==
    last.op = "reconnect_timer" /\ ~socket.reconnect

====
